---- MODULE Spec2Model ----
(***************************************************************************)
(* ServicePack stock management (dashboard.py): the reconciliation and     *)
(* decision pipeline between the WooCommerce storefront, the backing store *)
(* tables and the Foneday supplier API.                                    *)
(*                                                                         *)
(* Money is kept in integer hundredths (cents); the configuration values   *)
(* and every quotient are exact rationals <<numerator, denominator>> with  *)
(* a positive denominator, so the arithmetic of calculate_profit_margin    *)
(* and is_profitable is the arithmetic of the reals (the rounding of a     *)
(* binary float is not modelled).  Text is a sequence of one-character     *)
(* strings, so that parsing and stripping act on characters.               *)
(***************************************************************************)
EXTENDS Integers, Sequences, FiniteSets, TLC

VARIABLES
    \* configuration, dashboard.py:27-29
    EUR_RON_RATE, MIN_PROFIT_MARGIN, TVA_RATE,
    \* profitability model under evaluation
    pm_cost, pm_cost2, pm_sale, pm_done, pm_profitable, pm_margin, pm_margin2,
    \* catalog normalizer under evaluation: raw artcode, result
    nz_raw, nz_done, nz_raised, nz_values,
    \* backing store tables written by step 2
    claude_foneday_products, claude_foneday_artcodes_normalized,
    \* the catalog the supplier answers GET /products with
    foneday_catalog,
    \* step 2 runs: whether there was one, whether the last one met no
    \* failure, whether it and the run before it met none, the normalized rows
    \* before it
    s2_ran, s2_clean, s2_repeat, s2_before,
    \* backing store tables of the restock pipeline
    claude_woo_stock, claude_woo_prices, claude_sku_artcode_mapping,
    claude_foneday_inventory, claude_foneday_cart, claude_foneday_orders_pending,
    \* what the supplier answers GET /product/<sku> with
    foneday_live,
    \* the last run of step 4: whether it is the latest pipeline run (or the
    \* one right before a step 5 run), whether it met no failure, the
    \* (sku, foneday_sku) pairs it queried the supplier for
    s4_ran, s4_clean, s4_queries,
    \* the last run of step 5, when it is the latest action: whether it met
    \* no failure, the cart-add calls it issued, the length of the cart table
    \* when it started
    s5_ran, s5_clean, s5_calls, s5_cart_before,
    \* the catalog view v_product_sku, in the order its rows come back
    v_product_sku,
    \* the last run of step 3: whether there was one, the skus and the
    \* normalized rows it read, batch_mappings, the chunks whose upsert
    \* raised, the chunks it submitted, the chunks it wrote, what it returned
    s3_ran, s3_skus, s3_artcodes, s3_batch, s3_fails, s3_submitted, s3_written,
    s3_returned,
    \* the storefront product feed
    woo_feed,
    \* the last run of step 1: whether there was one, whether it met no
    \* failure, the snapshot it loaded, the class and the queued rows of every
    \* product it processed, its tallies, the pages it requested, the writes
    \* it attempted, those that raised and those the store failed
    s1_ran, s1_clean, s1_existing_products, s1_existing_prices, s1_classes,
    s1_tallies, s1_pages, s1_attempts, s1_raised, s1_fails,
    \* more of the last run of step 4: the outcome of every query, whether the
    \* loop got through every zero-stock product, the snapshots it submitted
    s4_outcome, s4_all, s4_upserts,
    \* more of the last run of step 5: the tallies it returned
    s5_tallies,
    \* the last run that called the supplier (step 4, step 5, the opportunity
    \* scan, the operator's order loop): its calls and sleeps in order
    api_trace,
    \* the last run that commits to the supplier cart (step 5, the order
    \* loop): the additions it placed without a CartEntry, the errors its
    \* tallies count
    commit_lost, commit_errors,
    \* the last run of step 5 or of the opportunity scan: the pairs (supplier
    \* price, storefront price) it passed to is_profitable or
    \* calculate_profit_margin
    profit_args,
    \* st.session_state['opportunities'] of the page "Oportunitati Profit"
    opportunities,
    \* the last opportunity scan: whether it is the latest action, what it
    \* was asked for and what it returned
    scan_ran, scan_min_profit, scan_result,
    \* the last run of the order loop: whether it is the latest action, the
    \* order it placed, the cart-add calls it issued, the length of the cart
    \* table when it started, its tallies
    order_ran, order_placed, order_calls, order_cart_before, order_tallies,
    order_quantities, order_outcomes,
    \* the operator sessions on the page "Comenzi in Tranzit": where the rerun
    \* of each session stands, the row its button is for, the status it sets
    session_pc, session_row, session_status,
    \* the rows the latest run appended to claude_sync_logs (their event
    \* types), the event types whose insert fails, whether a log_event call of
    \* the latest run raised
    claude_sync_logs, log_faults, log_raised

cfgVars == <<EUR_RON_RATE, MIN_PROFIT_MARGIN, TVA_RATE>>
pmVars == <<pm_cost, pm_cost2, pm_sale, pm_done, pm_profitable, pm_margin, pm_margin2>>

nzVars == <<nz_raw, nz_done, nz_raised, nz_values>>
catalogVars == <<claude_foneday_products, claude_foneday_artcodes_normalized>>
s2Vars == <<foneday_catalog, s2_ran, s2_clean, s2_repeat, s2_before>>

storeVars == <<claude_woo_stock, claude_woo_prices, claude_sku_artcode_mapping,
               claude_foneday_inventory, claude_foneday_cart,
               claude_foneday_orders_pending, foneday_live>>
s4Vars == <<s4_ran, s4_clean, s4_queries>>
s5Vars == <<s5_ran, s5_clean, s5_calls, s5_cart_before>>
pipeVars == <<storeVars, s4Vars, s5Vars>>

s3Vars == <<s3_ran, s3_skus, s3_artcodes, s3_batch, s3_fails, s3_submitted, s3_written,
           s3_returned>>
mapVars == <<v_product_sku, s3Vars>>
s1Vars == <<s1_ran, s1_clean, s1_existing_products, s1_existing_prices, s1_classes,
           s1_tallies, s1_pages, s1_attempts, s1_raised, s1_fails>>
syncVars == <<woo_feed, s1Vars>>
runVars == <<s4_outcome, s4_all, s4_upserts, s5_tallies, api_trace, commit_lost,
            commit_errors, profit_args>>
scanVars == <<opportunities, scan_ran, scan_min_profit, scan_result>>
orderVars == <<order_ran, order_placed, order_calls, order_cart_before, order_tallies,
               order_quantities, order_outcomes>>
extVars == <<mapVars, syncVars>>
sessVars == <<session_pc, session_row, session_status>>
logVars == <<claude_sync_logs, log_faults, log_raised>>

vars == <<cfgVars, pmVars, nzVars, catalogVars, s2Vars, pipeVars, extVars, runVars,
          scanVars, orderVars, sessVars, logVars>>

(***************************************************************************)
(* Exact rational arithmetic                                               *)
(***************************************************************************)
Abs(n) == IF n < 0 THEN -n ELSE n

RECURSIVE Gcd(_, _)
Gcd(a, b) == IF b = 0 THEN a ELSE Gcd(b, a % b)

\* the rational n/d in lowest terms with a positive denominator (d # 0)
Rat(n, d) ==
    LET g == Gcd(Abs(n), Abs(d))
        s == IF d < 0 THEN -1 ELSE 1
    IN <<s * (n \div g), s * (d \div g)>>

RMul(x, y) ==
    LET a == Rat(x[1], y[2])
        b == Rat(y[1], x[2])
    IN Rat(a[1] * b[1], a[2] * b[2])

\* x / y, y # 0
RDiv(x, y) == RMul(x, Rat(y[2], y[1]))

RSub(x, y) == Rat(x[1] * y[2] - y[1] * x[2], x[2] * y[2])

\* the comparisons multiply out over the least common denominator
RLess(x, y) ==
    LET g == Gcd(x[2], y[2])
    IN x[1] * (y[2] \div g) < y[1] * (x[2] \div g)

RLeq(x, y) ==
    LET g == Gcd(x[2], y[2])
    IN x[1] * (y[2] \div g) <= y[1] * (x[2] \div g)

\* a price held in cents as the number the code computes with
PriceScale == 100

Money(cents) == Rat(cents, PriceScale)

\* Python's round(x, 2): the nearest hundredth, a tie to the even hundredth
Round2(x) ==
    LET d == x[2]
        whole == x[1] \div d
        part == (x[1] % d) * 100
        q == whole * 100 + (part \div d)
        r == part % d
        h == IF 2 * r > d THEN q + 1
             ELSE IF 2 * r < d THEN q
             ELSE IF q % 2 = 0 THEN q ELSE q + 1
    IN Rat(h, 100)

(***************************************************************************)
(* Profitability model, dashboard.py:63-77                                 *)
(***************************************************************************)
\* calculate_profit_margin with the operands of the subtraction exchanged
calculate_profit_margin_swapped(foneday_price_eur, woo_price_ron) ==
    LET cost_ron == RMul(Money(foneday_price_eur), EUR_RON_RATE)
        selling_price_without_vat == RDiv(Money(woo_price_ron), TVA_RATE)
        ratio == RDiv(cost_ron, selling_price_without_vat)
        profit_margin == RMul(RSub(ratio, Rat(1, 1)), Rat(100, 1))
    IN Round2(profit_margin)

\* calculate_profit_margin that leaves the VAT in the selling price
calculate_profit_margin_with_vat(foneday_price_eur, woo_price_ron) ==
    LET cost_ron == RMul(Money(foneday_price_eur), EUR_RON_RATE)
        ratio == RDiv(cost_ron, Money(woo_price_ron))
        profit_margin == RMul(RSub(Rat(1, 1), ratio), Rat(100, 1))
    IN Round2(profit_margin)

\* the margin in percent, rounded to 2 decimals (sale price # 0)
calculate_profit_margin(foneday_price_eur, woo_price_ron) ==
    LET cost_ron == RMul(Money(foneday_price_eur), EUR_RON_RATE)
        selling_price_without_vat == RDiv(Money(woo_price_ron), TVA_RATE)
        ratio == RDiv(cost_ron, selling_price_without_vat)
        profit_margin == RMul(RSub(Rat(1, 1), ratio), Rat(100, 1))
    IN Round2(profit_margin)

\* is_profitable that accepts a ratio equal to the threshold
is_profitable_leq(foneday_price_eur, woo_price_ron) ==
    LET cost_ron == RMul(Money(foneday_price_eur), EUR_RON_RATE)
        selling_price_without_vat == RDiv(Money(woo_price_ron), TVA_RATE)
        ratio == RDiv(cost_ron, selling_price_without_vat)
    IN RLeq(ratio, MIN_PROFIT_MARGIN)

is_profitable(foneday_price_eur, woo_price_ron) ==
    LET cost_ron == RMul(Money(foneday_price_eur), EUR_RON_RATE)
        selling_price_without_vat == RDiv(Money(woo_price_ron), TVA_RATE)
        ratio == RDiv(cost_ron, selling_price_without_vat)
    IN RLess(ratio, MIN_PROFIT_MARGIN)

(***************************************************************************)
(* Text: a sequence of one-character strings                               *)
(***************************************************************************)
DQ == "\""
SQ == "'"
BS == "\\"
Whitespace == {" "}
Digits == {"0", "1", "2"}

Range(f) == {f[i] : i \in DOMAIN f}

\* the characters of s, each as a text of length 1 (iterating a Python str)
CharsOf(s) == [i \in 1..Len(s) |-> <<s[i]>>]

RECURSIVE LStrip(_, _)
LStrip(s, cs) ==
    IF s # <<>> /\ Head(s) \in cs THEN LStrip(Tail(s), cs) ELSE s

RECURSIVE RStrip(_, _)
RStrip(s, cs) ==
    IF s # <<>> /\ s[Len(s)] \in cs THEN RStrip(SubSeq(s, 1, Len(s) - 1), cs) ELSE s

\* str.strip(): both ends, every leading and trailing character of cs
Strip(s, cs) == RStrip(LStrip(s, cs), cs)

RECURSIVE Concat(_)
Concat(ss) == IF ss = <<>> THEN <<>> ELSE Head(ss) \o Concat(Tail(ss))

(***************************************************************************)
(* json.loads on text made of letters, digits, quotes, blanks, brackets    *)
(* and commas: a JSON value is a string, a non-negative integer or an      *)
(* array.  A value is [t |-> "str" | "int" | "list", v |-> ...].           *)
(***************************************************************************)
JsonError == [ok |-> FALSE]

RECURSIVE SkipWs(_, _)
SkipWs(s, i) ==
    IF i <= Len(s) /\ s[i] \in Whitespace THEN SkipWs(s, i + 1) ELSE i

\* the position of the next double quote at or after i, 0 when there is none
RECURSIVE FindQuote(_, _)
FindQuote(s, i) ==
    IF i > Len(s) THEN 0
    ELSE IF s[i] = DQ THEN i
    ELSE FindQuote(s, i + 1)

\* s[i] is the opening quote
ParseString(s, i) ==
    LET j == FindQuote(s, i + 1)
    IN IF j = 0 THEN JsonError
       ELSE [ok |-> TRUE, val |-> [t |-> "str", v |-> SubSeq(s, i + 1, j - 1)], next |-> j + 1]

RECURSIVE DigitsEnd(_, _)
DigitsEnd(s, i) ==
    IF i <= Len(s) /\ s[i] \in Digits THEN DigitsEnd(s, i + 1) ELSE i

\* s[i] is a digit; an integer is "0" or a digit other than 0 and more digits
ParseNumber(s, i) ==
    LET j == IF s[i] = "0" THEN i + 1 ELSE DigitsEnd(s, i)
    IN [ok |-> TRUE, val |-> [t |-> "int", v |-> SubSeq(s, i, j - 1)], next |-> j]

RECURSIVE ParseValue(_, _)
RECURSIVE ParseElements(_, _, _)

\* the elements of an array from position i on (i follows "[" or ","),
\* acc the values read so far
ParseElements(s, i, acc) ==
    LET r == ParseValue(s, i)
    IN IF ~r.ok THEN JsonError
       ELSE LET k == SkipWs(s, r.next)
                vs == Append(acc, r.val)
            IN IF k > Len(s) THEN JsonError
               ELSE IF s[k] = "," THEN ParseElements(s, SkipWs(s, k + 1), vs)
               ELSE IF s[k] = "]" THEN [ok |-> TRUE, val |-> [t |-> "list", v |-> vs], next |-> k + 1]
               ELSE JsonError

ParseValue(s, i) ==
    IF i > Len(s) THEN JsonError
    ELSE IF s[i] = DQ THEN ParseString(s, i)
    ELSE IF s[i] \in Digits THEN ParseNumber(s, i)
    ELSE IF s[i] = "["
         THEN LET j == SkipWs(s, i + 1)
              IN IF j <= Len(s) /\ s[j] = "]"
                 THEN [ok |-> TRUE, val |-> [t |-> "list", v |-> <<>>], next |-> j + 1]
                 ELSE ParseElements(s, j, <<>>)
    ELSE JsonError

\* one value between optional blanks, nothing after it
json_loads(s) ==
    LET r == ParseValue(s, SkipWs(s, 1))
    IN IF ~r.ok THEN JsonError
       ELSE IF SkipWs(s, r.next) # Len(s) + 1 THEN JsonError
       ELSE [ok |-> TRUE, val |-> r.val]

(***************************************************************************)
(* Python's str() and repr() of a parsed value                             *)
(***************************************************************************)
HasChar(s, c) == \E i \in 1..Len(s) : s[i] = c

\* repr of a str: double quotes when it holds a single quote and no double
\* quote, otherwise single quotes with the single quotes escaped
ReprStr(s) ==
    IF HasChar(s, SQ) /\ ~HasChar(s, DQ)
    THEN <<DQ>> \o s \o <<DQ>>
    ELSE <<SQ>> \o Concat([i \in 1..Len(s) |-> IF s[i] = SQ THEN <<BS, SQ>> ELSE <<s[i]>>]) \o <<SQ>>

RECURSIVE Repr(_)
RECURSIVE JoinRepr(_)

\* the elements' reprs separated by ", "
JoinRepr(vs) ==
    IF vs = <<>> THEN <<>>
    ELSE IF Len(vs) = 1 THEN Repr(vs[1])
    ELSE Repr(vs[1]) \o <<",", " ">> \o JoinRepr(Tail(vs))

Repr(val) ==
    IF val.t = "str" THEN ReprStr(val.v)
    ELSE IF val.t = "int" THEN val.v
    ELSE <<"[">> \o JoinRepr(val.v) \o <<"]">>

PyStr(val) == IF val.t = "str" THEN val.v ELSE Repr(val)

(***************************************************************************)
(* Catalog normalizer, dashboard.py:450-469.  The raw artcode of a         *)
(* supplier product is [k, v, items]: k is "none", "str" (v the text),      *)
(* "int" (v the digits) or "list" (items the values).                      *)
(***************************************************************************)
\* Python truthiness of the raw value (line 450)
Truthy(artcode_raw) ==
    IF artcode_raw.k = "none" THEN FALSE
    ELSE IF artcode_raw.k = "int" THEN LStrip(artcode_raw.v, {"0"}) # <<>>
    ELSE IF artcode_raw.k = "list" THEN artcode_raw.items # <<>>
    ELSE artcode_raw.v # <<>>

\* line 464
artcode_clean(artcode_value) ==
    Strip(Strip(Strip(PyStr(artcode_value), Whitespace), {DQ}), {SQ})

\* lines 463-469: the clean values of the elements, the empty ones dropped
RECURSIVE CleanAll(_)
CleanAll(artcodes_list) ==
    IF artcodes_list = <<>> THEN <<>>
    ELSE LET c == artcode_clean(Head(artcodes_list))
         IN (IF c # <<>> THEN <<c>> ELSE <<>>) \o CleanAll(Tail(artcodes_list))

\* what "for artcode_value in artcodes_list" iterates over: the elements of a
\* list, the characters of a str; an int is not iterable (TypeError)
Iterable(val) == val.t # "int"

Elements(val) ==
    IF val.t = "list" THEN val.v
    ELSE [i \in 1..Len(val.v) |-> [t |-> "str", v |-> <<val.v[i]>>]]

\* lines 450-472: [raised, values]; raised is the exception that line 471
\* catches, which leaves the product without artcode rows
normalize_artcode(artcode_raw) ==
    IF ~Truthy(artcode_raw) THEN [raised |-> FALSE, values |-> <<>>]
    ELSE IF artcode_raw.k = "str"
         THEN LET parsed == json_loads(artcode_raw.v)
              IN IF ~parsed.ok
                 THEN [raised |-> FALSE,
                       values |-> CleanAll(<<[t |-> "str", v |-> Strip(artcode_raw.v, Whitespace)]>>)]
                 ELSE IF ~Iterable(parsed.val)
                      THEN [raised |-> TRUE, values |-> <<>>]
                      ELSE [raised |-> FALSE, values |-> CleanAll(Elements(parsed.val))]
    ELSE IF artcode_raw.k = "list"
         THEN [raised |-> FALSE, values |-> CleanAll(artcode_raw.items)]
    ELSE [raised |-> FALSE, values |-> CleanAll(<<[t |-> "str", v |-> artcode_raw.v]>>)]

(***************************************************************************)
(* Bounds and input sets of the profitability specification                *)
(***************************************************************************)
MaxCost == 6
MaxSale == 8

\* prices in cents that sit on and next to the acceptance boundary of the
\* default configuration: 0.80/5.61 has ratio 0.88 exactly, 25.60/179.51
\* has a ratio just above it (0.880049), 10.00/100.00 and 10.00/40.00 are
\* the two end-to-end scenarios
BoundaryCosts == {80, 1000, 2560}
BoundarySales == {561, 4000, 10000, 17951}

Costs == (0..MaxCost) \cup BoundaryCosts
Sales == (1..MaxSale) \cup BoundarySales

DefaultRate == Rat(51, 10)
DefaultMargin == Rat(88, 100)
DefaultTva == Rat(121, 100)

Rates == {DefaultRate, Rat(5, 1)}
Margins == {DefaultMargin, Rat(4, 5)}
Tvas == {DefaultTva, Rat(119, 100)}

NoResult == <<"none">>

\* an absent (null) artcode
NoArtcode == [k |-> "none", v |-> <<>>, items |-> <<>>]

(***************************************************************************)
(* The parts of the state a specification does not exercise                *)
(***************************************************************************)
DefaultConfig ==
    /\ EUR_RON_RATE = DefaultRate
    /\ MIN_PROFIT_MARGIN = DefaultMargin
    /\ TVA_RATE = DefaultTva

IdleProfit ==
    /\ pm_cost = 0
    /\ pm_cost2 = 0
    /\ pm_sale = 1
    /\ pm_done = FALSE
    /\ pm_profitable = FALSE
    /\ pm_margin = NoResult
    /\ pm_margin2 = NoResult

IdleNormalizer ==
    /\ nz_raw = NoArtcode
    /\ nz_done = FALSE
    /\ nz_raised = FALSE
    /\ nz_values = <<>>

NoImportYet ==
    /\ s2_ran = FALSE
    /\ s2_clean = FALSE
    /\ s2_repeat = FALSE
    /\ s2_before = {}

NoStep4Yet ==
    /\ s4_ran = FALSE
    /\ s4_clean = FALSE
    /\ s4_queries = {}

NoStep5Yet ==
    /\ s5_ran = FALSE
    /\ s5_clean = FALSE
    /\ s5_calls = <<>>
    /\ s5_cart_before = 0

IdlePipeline ==
    /\ claude_woo_stock = <<>>
    /\ claude_woo_prices = <<>>
    /\ claude_sku_artcode_mapping = {}
    /\ claude_foneday_inventory = {}
    /\ claude_foneday_cart = <<>>
    /\ claude_foneday_orders_pending = <<>>
    /\ foneday_live = <<>>
    /\ NoStep4Yet
    /\ NoStep5Yet

NoStep3Yet ==
    /\ s3_ran = FALSE
    /\ s3_skus = <<>>
    /\ s3_artcodes = <<>>
    /\ s3_batch = <<>>
    /\ s3_fails = {}
    /\ s3_submitted = {}
    /\ s3_written = {}
    /\ s3_returned = 0

IdleMapper ==
    /\ v_product_sku = <<>>
    /\ NoStep3Yet

NoTallies == [total_new |-> 0, total_updated |-> 0, total_unchanged |-> 0, total_errors |-> 0]

NoStep1Yet ==
    /\ s1_ran = FALSE
    /\ s1_clean = FALSE
    /\ s1_existing_products = <<>>
    /\ s1_existing_prices = <<>>
    /\ s1_classes = <<>>
    /\ s1_tallies = NoTallies
    /\ s1_pages = 0
    /\ s1_attempts = {}
    /\ s1_raised = {}
    /\ s1_fails = {}

IdleSync ==
    /\ woo_feed = <<>>
    /\ NoStep1Yet

NoStep5Tallies == [added_to_cart |-> 0, not_profitable |-> 0]

NoOrderTallies == [success_count |-> 0, error_count |-> 0]

NoRunYet ==
    /\ s4_outcome = <<>>
    /\ s4_all = FALSE
    /\ s4_upserts = {}
    /\ s5_tallies = NoStep5Tallies
    /\ api_trace = <<>>
    /\ commit_lost = 0
    /\ commit_errors = 0
    /\ profit_args = {}

NoScanYet ==
    /\ scan_ran = FALSE
    /\ scan_min_profit = 0
    /\ scan_result = <<>>

NoOrderYet ==
    /\ order_ran = FALSE
    /\ order_placed = <<>>
    /\ order_calls = <<>>
    /\ order_cart_before = 0
    /\ order_tallies = NoOrderTallies
    /\ order_quantities = <<>>
    /\ order_outcomes = <<>>

IdleScan ==
    /\ opportunities = <<>>
    /\ NoScanYet
    /\ NoOrderYet

\* a log_event whose failed insert leaves the function as an exception
log_event_raises_on_failure(event_type, faults) == event_type \in faults

\* lines 58-60: the exception of the insert is caught and printed
log_event_raises(event_type, faults) == FALSE

\* lines 48-60: the row is appended unless the insert fails
log_event(logs, event_type, faults) ==
    IF event_type \in faults THEN logs ELSE Append(logs, event_type)

RECURSIVE log_events(_, _, _)
log_events(logs, event_types, faults) ==
    IF event_types = <<>> THEN logs
    ELSE log_events(log_event(logs, Head(event_types), faults), Tail(event_types), faults)

\* the log_event calls of a run, in order
LogRun(event_types) ==
    /\ claude_sync_logs' = log_events(<<>>, event_types, log_faults)
    /\ log_raised' = \E i \in 1..Len(event_types) :
                         log_event_raises(event_types[i], log_faults)
    /\ UNCHANGED log_faults

\* n times the event
Times(n, event_type) == [i \in 1..n |-> event_type]

NoLogYet ==
    /\ claude_sync_logs = <<>>
    /\ log_raised = FALSE

LogUp ==
    /\ NoLogYet
    /\ log_faults = {}

Sessions == {"s1", "s2"}

IdleSessions ==
    /\ session_pc = [s \in Sessions |-> "idle"]
    /\ session_row = [s \in Sessions |-> 0]
    /\ session_status = [s \in Sessions |-> ""]

IdleOthers ==
    /\ IdleSessions
    /\ LogUp
    /\ IdleMapper
    /\ IdleSync
    /\ NoRunYet
    /\ IdleScan

EmptyCatalogTables ==
    /\ claude_foneday_products = {}
    /\ claude_foneday_artcodes_normalized = {}
    /\ foneday_catalog = <<>>
    /\ NoImportYet

InitProfit ==
    /\ EUR_RON_RATE \in Rates
    /\ MIN_PROFIT_MARGIN \in Margins
    /\ TVA_RATE \in Tvas
    /\ pm_cost \in Costs
    /\ pm_cost2 \in Costs
    /\ pm_sale \in Sales
    /\ pm_done = FALSE
    /\ pm_profitable = FALSE
    /\ pm_margin = NoResult
    /\ pm_margin2 = NoResult
    /\ IdleNormalizer
    /\ EmptyCatalogTables
    /\ IdlePipeline
    /\ IdleOthers

\* one evaluation of both functions on the drawn prices
EvalProfit ==
    /\ ~pm_done
    /\ pm_done' = TRUE
    /\ pm_profitable' = is_profitable(pm_cost, pm_sale)
    /\ pm_margin' = calculate_profit_margin(pm_cost, pm_sale)
    /\ pm_margin2' = calculate_profit_margin(pm_cost2, pm_sale)
    /\ UNCHANGED <<logVars, sessVars, cfgVars, pm_cost, pm_cost2, pm_sale>>
    /\ UNCHANGED <<nzVars, catalogVars, s2Vars, pipeVars>>
    /\ UNCHANGED <<extVars, runVars, scanVars, orderVars>>

NextProfit == EvalProfit

SpecProfit == InitProfit /\ [][NextProfit]_vars

(***************************************************************************)
(* The catalog normalizer on one raw artcode (SpecNorm)                    *)
(***************************************************************************)
MaxTextLen == 3

Letters == {"A"}
Sigma == Letters \cup {"1", DQ, SQ, " ", "[", "]", ","}

Text(s) == [k |-> "str", v |-> s, items |-> <<>>]
Number(s) == [k |-> "int", v |-> s, items |-> <<>>]
List(vs) == [k |-> "list", v |-> <<>>, items |-> vs]
Str(s) == [t |-> "str", v |-> s]

\* a JSON array of strings as the supplier sends it: ["e1","e2"]
RECURSIVE JoinQuoted(_)
JoinQuoted(es) ==
    IF es = <<>> THEN <<>>
    ELSE IF Len(es) = 1 THEN <<DQ>> \o es[1] \o <<DQ>>
    ELSE <<DQ>> \o es[1] \o <<DQ, ",">> \o JoinQuoted(Tail(es))

EncodeArray(es) == <<"[">> \o JoinQuoted(es) \o <<"]">>

A1 == <<"A", "1">>
A2 == <<"A", "2">>

\* the lists of plain codes whose JSON text is among the raw values
CodeLists == {<<A1>>, <<A1, A2>>, <<A2, A1>>, <<A1, A1>>, <<<<"1", "2">>, A1>>}

\* a plain code between double quotes and blanks, as in ' "A1" '
QuotedTexts ==
    {<<" ", DQ>> \o A1 \o <<DQ, " ">>, <<DQ>> \o A1 \o <<DQ>>,
     <<" ", " ", DQ, "A">> \o <<DQ, " ">>}

RawArtcodes ==
    {Text(s) : s \in UNION {[1..n -> Sigma] : n \in 0..MaxTextLen}}
    \cup {Text(EncodeArray(es)) : es \in CodeLists}
    \cup {Text(s) : s \in QuotedTexts}
    \cup {Text(<<"1", "2">>), Text(<<"0", "1">>), Text(<<"[", "[", "1", "]", "]">>),
          Text(<<"[", "[", DQ, "A", SQ, DQ, "]", "]">>)}
    \cup {NoArtcode, Number(<<"1", "2">>), Number(<<"0">>), List(<<>>),
          List(<<Str(A1), Str(<<" ", "A", " ">>)>>), List(<<[t |-> "int", v |-> <<"1", "2">>]>>)}

InitNorm ==
    /\ DefaultConfig
    /\ IdleProfit
    /\ nz_raw \in RawArtcodes
    /\ nz_done = FALSE
    /\ nz_raised = FALSE
    /\ nz_values = <<>>
    /\ EmptyCatalogTables
    /\ IdlePipeline
    /\ IdleOthers

\* the normalizer applied to the drawn raw value
EvalNormalize ==
    /\ ~nz_done
    /\ LET r == normalize_artcode(nz_raw)
       IN /\ nz_raised' = r.raised
          /\ nz_values' = r.values
    /\ nz_done' = TRUE
    /\ UNCHANGED <<logVars, sessVars, cfgVars, pmVars, nz_raw, catalogVars, s2Vars, pipeVars>>
    /\ UNCHANGED <<extVars, runVars, scanVars, orderVars>>

NextNorm == EvalNormalize

SpecNorm == InitNorm /\ [][NextNorm]_vars

(***************************************************************************)
(* Step 2: import of the supplier catalog, dashboard.py:383-507            *)
(* (SpecImport).  A product of the catalog response is [sku, artcode,      *)
(* price_ok]; price_ok is whether float(price) succeeds (line 446).        *)
(***************************************************************************)
MaxCatalog == 3

\* batch_size is 100 at line 420; scaled so that a catalog of MaxCatalog
\* products spans more than one batch
batch_size == 2

FonedaySkus == {"F1", "F2"}

CatalogProducts ==
    {[sku |-> "F1", artcode |-> Text(A1), price_ok |-> TRUE],
     [sku |-> "F1", artcode |-> Text(EncodeArray(<<A1, A2>>)), price_ok |-> TRUE],
     [sku |-> "F2", artcode |-> Text(<<" ", DQ>> \o A1 \o <<DQ, " ">>), price_ok |-> TRUE],
     [sku |-> "F2", artcode |-> Text(A1), price_ok |-> FALSE]}

Catalogs == UNION {[1..n -> CatalogProducts] : n \in 0..MaxCatalog}

Min(a, b) == IF a < b THEN a ELSE b

NumBatches(products) == (Len(products) + batch_size - 1) \div batch_size

\* products[i:i+batch_size] of the b-th pass of the loop at line 424
BatchOf(products, b) ==
    SubSeq(products, (b - 1) * batch_size + 1, Min(b * batch_size, Len(products)))

\* lines 429-448: the product rows of a batch; a product whose price does not
\* convert raises before its row is appended and is skipped (line 471)
RECURSIVE batch_data(_)
batch_data(batch) ==
    IF batch = <<>> THEN <<>>
    ELSE LET product == Head(batch)
         IN (IF product.price_ok
             THEN <<[foneday_sku |-> product.sku, artcode |-> product.artcode]>>
             ELSE <<>>) \o batch_data(Tail(batch))

\* lines 450-469: the normalized rows of a batch
RECURSIVE batch_artcodes(_)
batch_artcodes(batch) ==
    IF batch = <<>> THEN <<>>
    ELSE LET product == Head(batch)
             values == normalize_artcode(product.artcode).values
         IN (IF product.price_ok
             THEN [i \in 1..Len(values) |-> [foneday_sku |-> product.sku, artcode |-> values[i]]]
             ELSE <<>>) \o batch_artcodes(Tail(batch))

\* upsert on_conflict="foneday_sku" (lines 476-479): a later row of the same
\* key replaces the earlier one
RECURSIVE upsert_products(_, _)
upsert_products(table, rows) ==
    IF rows = <<>> THEN table
    ELSE upsert_products(
             {t \in table : t.foneday_sku # Head(rows).foneday_sku} \cup {Head(rows)},
             Tail(rows))

\* an upsert that removes the rows it conflicts with
upsert_artcodes_toggle(table, rows) ==
    (table \ Range(rows)) \cup (Range(rows) \ table)

\* upsert on_conflict="foneday_sku,artcode" (lines 486-489): the row is its key
upsert_artcodes(table, rows) == table \cup Range(rows)

\* the loop at line 424 from batch b on; fail_data and fail_artcodes are the
\* batches whose upsert raises (lines 481, 491)
RECURSIVE step2_batches(_, _, _, _, _, _)
step2_batches(products, b, prod_table, art_table, fail_data, fail_artcodes) ==
    IF b > NumBatches(products) THEN [products |-> prod_table, artcodes |-> art_table]
    ELSE LET batch == BatchOf(products, b)
             data == batch_data(batch)
             artcodes == batch_artcodes(batch)
             prod_next == IF data # <<>> /\ b \notin fail_data
                          THEN upsert_products(prod_table, data) ELSE prod_table
             art_next == IF artcodes # <<>> /\ b \notin fail_artcodes
                         THEN upsert_artcodes(art_table, artcodes) ELSE art_table
         IN step2_batches(products, b + 1, prod_next, art_next, fail_data, fail_artcodes)

\* rows an earlier import of another catalog has left in the store
StaleProducts == {[foneday_sku |-> "F1", artcode |-> Text(A2)]}
StaleArtcodes == {[foneday_sku |-> "F1", artcode |-> A2], [foneday_sku |-> "F1", artcode |-> <<"A">>]}

InitImport ==
    /\ DefaultConfig
    /\ IdleProfit
    /\ IdleNormalizer
    /\ foneday_catalog \in Catalogs
    /\ \/ /\ claude_foneday_products = {}
          /\ claude_foneday_artcodes_normalized = {}
       \/ /\ claude_foneday_products = StaleProducts
          /\ claude_foneday_artcodes_normalized = StaleArtcodes
    /\ NoImportYet
    /\ IdlePipeline
    /\ IdleOthers

\* one run of step2_import_foneday_all_products: status_ok is whether the
\* supplier answers with a 200
step2_import_foneday_all_products ==
    /\ \E status_ok \in BOOLEAN :
       LET products == foneday_catalog IN
       \E fail_data \in SUBSET (1..NumBatches(products)),
          fail_artcodes \in SUBSET (1..NumBatches(products)) :
          LET clean == status_ok /\ fail_data = {} /\ fail_artcodes = {}
              out == step2_batches(products, 1, claude_foneday_products,
                                   claude_foneday_artcodes_normalized,
                                   fail_data, fail_artcodes)
          IN /\ status_ok \/ (fail_data = {} /\ fail_artcodes = {})
             /\ IF status_ok /\ products # <<>>
                THEN /\ claude_foneday_products' = out.products
                     /\ claude_foneday_artcodes_normalized' = out.artcodes
                ELSE UNCHANGED catalogVars
             /\ s2_ran' = TRUE
             /\ s2_clean' = clean
             /\ s2_repeat' = (s2_ran /\ s2_clean /\ clean)
             /\ s2_before' = claude_foneday_artcodes_normalized
             /\ LogRun(<<"step2_start",
                         IF status_ok THEN "step2_complete" ELSE "step2_error">>)
    /\ UNCHANGED <<sessVars, cfgVars, pmVars, nzVars, foneday_catalog, pipeVars>>
    /\ UNCHANGED <<extVars, runVars, scanVars, orderVars>>

NextImport == step2_import_foneday_all_products

SpecImport == InitImport /\ [][NextImport]_vars

(***************************************************************************)
(* Step 3: the identifier mapper, dashboard.py:511-656 (SpecMap).  A row   *)
(* of v_product_sku is [sku, product_id, is_primary]; a SkuMapping row is  *)
(* kept as [my_sku, foneday_artcode, foneday_sku], the columns the         *)
(* pipeline reads and the conflict key of the upsert.                      *)
(***************************************************************************)
MaxPrimary == 7

\* page_size is 1000 at line 523; scaled so that both reads take several
\* pages
page_size == 4

\* batch_size is 500 at line 621; scaled so that batch_mappings spans
\* several chunks
mapping_batch_size == 2

Sku(i) == <<"S", ToString(i)>>

\* lines 529-531: rows page*page_size .. (page+1)*page_size-1 of a select
select_range(rows, page) ==
    SubSeq(rows, page * page_size + 1, Min((page + 1) * page_size, Len(rows)))

\* the loops at lines 526-543 and 557-574
RECURSIVE read_pages(_, _, _)
read_pages(rows, page, acc) ==
    LET data == select_range(rows, page)
    IN IF data = <<>> THEN acc
       ELSE IF Len(data) < page_size THEN acc \o data
       ELSE read_pages(rows, page + 1, acc \o data)

\* the filter of the select at lines 527-529 without is_primary
primary_rows_all(view) == view

\* lines 527-529: .eq("is_primary", True)
primary_rows(view) ==
    LET IsPrimary(r) == r.is_primary IN SelectSeq(view, IsPrimary)

\* lines 585-593: artcode -> the rows of that artcode, in the order read
artcode_dict(all_artcodes) ==
    [artcode \in {all_artcodes[i].artcode : i \in 1..Len(all_artcodes)} |->
        LET Same(item) == item.artcode = artcode
        IN SelectSeq(all_artcodes, Same)]

Mapping(my_sku, foneday_artcode, foneday_sku) ==
    [my_sku |-> my_sku, foneday_artcode |-> foneday_artcode, foneday_sku |-> foneday_sku]

\* lines 595-609
RECURSIVE batch_mappings(_, _)
batch_mappings(all_my_skus, dict) ==
    IF all_my_skus = <<>> THEN <<>>
    ELSE LET my_sku == Head(all_my_skus).sku
             matches == IF my_sku \in DOMAIN dict THEN dict[my_sku] ELSE <<>>
         IN [i \in 1..Len(matches) |->
                Mapping(my_sku, matches[i].artcode, matches[i].foneday_sku)]
            \o batch_mappings(Tail(all_my_skus), dict)

NumChunks(mappings) == (Len(mappings) + mapping_batch_size - 1) \div mapping_batch_size

\* batch_mappings[i:i+batch_size] of the c-th pass of the loop at line 624
ChunkOf(mappings, c) ==
    SubSeq(mappings, (c - 1) * mapping_batch_size + 1,
           Min(c * mapping_batch_size, Len(mappings)))

\* a write that leaves the rows of the chunk and nothing else
upsert_mappings_fresh(table, rows) == Range(rows)

\* upsert on_conflict="my_sku,foneday_artcode" (lines 627-630): a row replaces
\* the row of the same key, an earlier row of the same chunk included
RECURSIVE upsert_mappings(_, _)
upsert_mappings(table, rows) ==
    IF rows = <<>> THEN table
    ELSE upsert_mappings(
             {t \in table : ~(/\ t.my_sku = Head(rows).my_sku
                              /\ t.foneday_artcode = Head(rows).foneday_artcode)}
                 \cup {Head(rows)},
             Tail(rows))

\* the mapper giving up at the first failed chunk
too_many_errors_first(errors) == errors > 0

\* line 636
too_many_errors(errors) == errors > 5

\* the loop at line 624 from chunk c on; fails are the chunks whose upsert
\* raises
RECURSIVE step3_chunks(_, _, _, _, _, _, _)
step3_chunks(mappings, c, table, errors, fails, submitted, written) ==
    IF c > NumChunks(mappings)
    THEN [table |-> table, submitted |-> submitted, written |-> written]
    ELSE IF c \in fails
         THEN IF too_many_errors(errors + 1)
              THEN [table |-> table, submitted |-> submitted \cup {c}, written |-> written]
              ELSE step3_chunks(mappings, c + 1, table, errors + 1, fails,
                                submitted \cup {c}, written)
         ELSE step3_chunks(mappings, c + 1, upsert_mappings(table, ChunkOf(mappings, c)),
                           errors, fails, submitted \cup {c}, written \cup {c})

\* the rows of a table as a select without ORDER BY may return them: in one
\* order or in the opposite one
RECURSIVE TableSeq(_)
TableSeq(table) ==
    IF table = {} THEN <<>>
    ELSE LET r == CHOOSE t \in table : TRUE IN <<r>> \o TableSeq(table \ {r})

Reverse(s) == [i \in 1..Len(s) |-> s[Len(s) + 1 - i]]

\* one run of step3_map_sku_to_artcode from the store it starts with (a
\* store that earlier runs have written is among the initial ones): reads_ok
\* is whether no read of lines 526-574 raises, count_ok whether the count at
\* line 644 succeeds
step3_map_sku_to_artcode ==
    /\ ~s3_ran
    /\ \E reads_ok \in BOOLEAN, count_ok \in BOOLEAN, reversed \in BOOLEAN :
       LET stored == TableSeq(claude_foneday_artcodes_normalized)
           all_my_skus == read_pages(primary_rows(v_product_sku), 0, <<>>)
           all_artcodes == read_pages(IF reversed THEN Reverse(stored) ELSE stored, 0, <<>>)
           mappings == batch_mappings(all_my_skus, artcode_dict(all_artcodes))
           saves == reads_ok /\ mappings # <<>>
       IN \E fails \in SUBSET (1..NumChunks(mappings)) :
          LET out == step3_chunks(mappings, 1, claude_sku_artcode_mapping, 0, fails, {}, {})
          IN /\ saves \/ (fails = {} /\ count_ok)
             /\ reads_ok \/ ~reversed
             /\ claude_sku_artcode_mapping' =
                    IF saves THEN out.table ELSE claude_sku_artcode_mapping
             /\ s3_skus' = IF reads_ok THEN all_my_skus ELSE <<>>
             /\ s3_artcodes' = IF reads_ok THEN all_artcodes ELSE <<>>
             /\ s3_batch' = IF saves THEN mappings ELSE <<>>
             /\ s3_fails' = fails
             /\ s3_submitted' = IF saves THEN out.submitted ELSE {}
             /\ s3_written' = IF saves THEN out.written ELSE {}
             /\ s3_returned' = IF saves /\ count_ok THEN Cardinality(out.table) ELSE 0
             /\ LogRun(<<"step3_start">>
                       \o (IF ~reads_ok \/ (saves /\ ~count_ok) THEN <<"step3_error">>
                           ELSE IF saves THEN <<"step3_complete">> ELSE <<>>))
    /\ s3_ran' = TRUE
    /\ UNCHANGED <<claude_woo_stock, claude_woo_prices, claude_foneday_inventory,
                   claude_foneday_cart, claude_foneday_orders_pending, foneday_live>>
    /\ UNCHANGED <<s4Vars, s5Vars, v_product_sku, syncVars, runVars, scanVars, orderVars>>
    /\ UNCHANGED <<sessVars, cfgVars, pmVars, nzVars, catalogVars, s2Vars>>

\* the catalog view: product 1 has a secondary sku next to its primary one,
\* every other product has its primary sku only
CatalogView(n) ==
    <<[sku |-> Sku(0), product_id |-> 1, is_primary |-> FALSE]>>
    \o [i \in 1..n |-> [sku |-> Sku(i), product_id |-> i, is_primary |-> TRUE]]

\* which supplier skus list the i-th primary sku as an artcode
MatchPatterns == {"both", "shifted", "single", "sparse"}

Matches(pattern, i) ==
    CASE pattern = "both" -> FonedaySkus
      [] pattern = "shifted" -> IF i = 1 THEN {"F1"} ELSE FonedaySkus
      [] pattern = "single" -> {"F1"}
      [] pattern = "sparse" -> IF i % 2 = 1 THEN {} ELSE FonedaySkus

\* the normalized rows: the matches of the primary skus, a row that matches
\* the secondary sku and a row that matches no sku
NormalizedRows(pattern, n) ==
    UNION {{[foneday_sku |-> f, artcode |-> Sku(i)] : f \in Matches(pattern, i)} : i \in 1..n}
    \cup {[foneday_sku |-> "F1", artcode |-> Sku(0)],
          [foneday_sku |-> "F2", artcode |-> <<"X">>]}

\* mappings an earlier run has left: one that this run refreshes, one of a
\* sku that matches nothing any more
StaleMappings == {Mapping(Sku(1), Sku(1), "F0"), Mapping(<<"X">>, <<"X">>, "F1")}

InitMap ==
    /\ DefaultConfig
    /\ LogUp
    /\ IdleSessions
    /\ IdleProfit
    /\ IdleNormalizer
    /\ \E n \in 0..MaxPrimary, pattern \in MatchPatterns :
          /\ v_product_sku = CatalogView(n)
          /\ claude_foneday_artcodes_normalized = NormalizedRows(pattern, n)
    /\ claude_foneday_products = {}
    /\ foneday_catalog = <<>>
    /\ NoImportYet
    /\ claude_woo_stock = <<>>
    /\ claude_woo_prices = <<>>
    /\ claude_sku_artcode_mapping \in {{}, StaleMappings}
    /\ claude_foneday_inventory = {}
    /\ claude_foneday_cart = <<>>
    /\ claude_foneday_orders_pending = <<>>
    /\ foneday_live = <<>>
    /\ NoStep4Yet
    /\ NoStep5Yet
    /\ NoStep3Yet
    /\ IdleSync
    /\ NoRunYet
    /\ IdleScan

NextMap == step3_map_sku_to_artcode

SpecMap == InitMap /\ [][NextMap]_vars

(***************************************************************************)
(* Step 1: the stock synchronizer, dashboard.py:181-379 (SpecSync).  A     *)
(* feed product is [sku, stock_quantity, regular_price]: the quantity is   *)
(* an integer or null, the price is the text of a number (kept in cents),  *)
(* the empty text, or a text float() rejects.  claude_woo_stock and        *)
(* claude_woo_prices have one row per sku (the key of both tables), so an  *)
(* insert of a sku that has a row, or of two rows of one sku, raises.      *)
(***************************************************************************)
MaxFeed == 3

\* per_page is 100 at line 184; scaled so that a feed of MaxFeed products
\* spans several pages
per_page == 1

\* the flush interval is 5 pages at line 301; scaled so that a feed of
\* MaxFeed pages meets a flush before its end
flush_pages == 2

Quantity(v) == [null |-> FALSE, v |-> v]
NullQuantity == [null |-> TRUE, v |-> 0]
Price(cents) == [k |-> "num", v |-> cents]
EmptyPrice == [k |-> "empty", v |-> 0]
BadPrice == [k |-> "bad", v |-> 0]

Product(sku, stock_quantity, regular_price) ==
    [sku |-> sku, stock_quantity |-> stock_quantity, regular_price |-> regular_price]

NumPages(feed) == (Len(feed) + per_page - 1) \div per_page

\* what the storefront answers page p with (line 224): an empty list past
\* the end of the feed
PageOf(feed, p) ==
    IF p > NumPages(feed) THEN <<>>
    ELSE SubSeq(feed, (p - 1) * per_page + 1, Min(p * per_page, Len(feed)))

\* line 248
current_stock(product) ==
    IF product.stock_quantity.null THEN 0 ELSE product.stock_quantity.v

\* line 249 (for a text that float() accepts)
current_price(product) ==
    IF product.regular_price.k = "num" THEN product.regular_price.v ELSE 0

\* line 251
is_new(sku, existing_products) == sku \notin DOMAIN existing_products

\* a comparison that never sees a difference
stock_changed_never(product, existing_products) == FALSE

\* line 252
stock_changed(product, existing_products) ==
    /\ ~is_new(product.sku, existing_products)
    /\ existing_products[product.sku] # current_stock(product)

\* line 253
price_changed(product, existing_prices) ==
    /\ product.sku \in DOMAIN existing_prices
    /\ existing_prices[product.sku] # current_price(product)

StockRow(product) == [sku |-> product.sku, stock_quantity |-> current_stock(product)]
PriceRow(product) == [sku |-> product.sku, regular_price |-> current_price(product)]

\* lines 236-299 for one product: its class and the rows it queues
classify(product, existing_products, existing_prices) ==
    IF product.sku = <<>>
    THEN [class |-> "skipped", new_stock |-> <<>>, new_price |-> <<>>,
          update_stock |-> <<>>, update_price |-> <<>>]
    ELSE IF product.regular_price.k = "bad"
    THEN [class |-> "errored", new_stock |-> <<>>, new_price |-> <<>>,
          update_stock |-> <<>>, update_price |-> <<>>]
    ELSE IF is_new(product.sku, existing_products)
    THEN [class |-> "new", new_stock |-> <<StockRow(product)>>,
          new_price |-> <<PriceRow(product)>>,
          update_stock |-> <<>>, update_price |-> <<>>]
    ELSE IF \/ stock_changed(product, existing_products)
            \/ price_changed(product, existing_prices)
    THEN [class |-> "changed", new_stock |-> <<>>, new_price |-> <<>>,
          update_stock |-> IF stock_changed(product, existing_products)
                           THEN <<StockRow(product)>> ELSE <<>>,
          update_price |-> IF price_changed(product, existing_prices)
                           THEN <<PriceRow(product)>> ELSE <<>>]
    ELSE [class |-> "unchanged", new_stock |-> <<>>, new_price |-> <<>>,
          update_stock |-> <<>>, update_price |-> <<>>]

\* the tables for which a product has queued a row
Queued(stock_rows, price_rows) ==
    {t \in {"stock"} : stock_rows # <<>>} \cup {t \in {"price"} : price_rows # <<>>}

\* lines 235-299 over the products of a page.  A run is the tables, the four
\* buffers, the class and the queued writes of every product processed, the
\* writes attempted, those that raised and the pages requested
RECURSIVE process_page(_, _, _, _)
process_page(products, existing_products, existing_prices, run) ==
    IF products = <<>> THEN run
    ELSE LET c == classify(Head(products), existing_products, existing_prices)
         IN process_page(Tail(products), existing_products, existing_prices,
                [run EXCEPT !.batch_new_stock = @ \o c.new_stock,
                            !.batch_new_price = @ \o c.new_price,
                            !.batch_update_stock = @ \o c.update_stock,
                            !.batch_update_price = @ \o c.update_price,
                            !.classes = Append(@, [sku |-> Head(products).sku,
                                                   class |-> c.class,
                                                   inserts |-> Queued(c.new_stock, c.new_price),
                                                   updates |-> Queued(c.update_stock, c.update_price)])])

WriteKinds == {"new_stock", "new_price", "update_stock", "update_price"}

Write(flush, kind) == [flush |-> flush, kind |-> kind]

Distinct(rows) == \A i, j \in 1..Len(rows) : rows[i].sku = rows[j].sku => i = j

\* an insert is rejected when a row's sku is already in the table or twice in
\* the batch
insert_conflict(table, rows) ==
    \/ ~Distinct(rows)
    \/ \E i \in 1..Len(rows) : rows[i].sku \in DOMAIN table

\* .insert(batch) (lines 306, 312, 348, 353)
insert_stock(table, rows) ==
    [sku \in DOMAIN table \cup {rows[i].sku : i \in 1..Len(rows)} |->
        IF \E i \in 1..Len(rows) : rows[i].sku = sku
        THEN (CHOOSE r \in Range(rows) : r.sku = sku).stock_quantity
        ELSE table[sku]]

insert_price(table, rows) ==
    [sku \in DOMAIN table \cup {rows[i].sku : i \in 1..Len(rows)} |->
        IF \E i \in 1..Len(rows) : rows[i].sku = sku
        THEN (CHOOSE r \in Range(rows) : r.sku = sku).regular_price
        ELSE table[sku]]

\* .update(...).eq("sku", ...) row by row (lines 317-323, 357-363): a sku
\* without a row is left without one
RECURSIVE update_stock(_, _)
update_stock(table, rows) ==
    IF rows = <<>> THEN table
    ELSE update_stock(
             IF Head(rows).sku \in DOMAIN table
             THEN [table EXCEPT ![Head(rows).sku] = Head(rows).stock_quantity]
             ELSE table,
             Tail(rows))

\* lines 327-333, 366-372
RECURSIVE update_price(_, _)
update_price(table, rows) ==
    IF rows = <<>> THEN table
    ELSE update_price(
             IF Head(rows).sku \in DOMAIN table
             THEN [table EXCEPT ![Head(rows).sku] = Head(rows).regular_price]
             ELSE table,
             Tail(rows))

Buffer(run, kind) ==
    CASE kind = "new_stock" -> run.batch_new_stock
      [] kind = "new_price" -> run.batch_new_price
      [] kind = "update_stock" -> run.batch_update_stock
      [] kind = "update_price" -> run.batch_update_price

\* lines 304-334 (flush = the page number) and 346-372 (flush = 0): fails are
\* the writes the store fails for a reason of its own; the writes of an
\* update batch fail together
flush(run, f, fails) ==
    LET stock_raises == \/ Write(f, "new_stock") \in fails
                        \/ insert_conflict(run.stock, run.batch_new_stock)
        price_raises == \/ Write(f, "new_price") \in fails
                        \/ insert_conflict(run.prices, run.batch_new_price)
        stock_1 == IF run.batch_new_stock # <<>> /\ ~stock_raises
                   THEN insert_stock(run.stock, run.batch_new_stock) ELSE run.stock
        prices_1 == IF run.batch_new_price # <<>> /\ ~price_raises
                    THEN insert_price(run.prices, run.batch_new_price) ELSE run.prices
        attempts == {w \in {Write(f, kind) : kind \in WriteKinds} : Buffer(run, w.kind) # <<>>}
        raised == {w \in attempts :
                      \/ w.kind = "new_stock" /\ stock_raises
                      \/ w.kind = "new_price" /\ price_raises
                      \/ w.kind \in {"update_stock", "update_price"} /\ w \in fails}
    IN [run EXCEPT
           !.stock = IF Write(f, "update_stock") \in fails THEN stock_1
                     ELSE update_stock(stock_1, run.batch_update_stock),
           !.prices = IF Write(f, "update_price") \in fails THEN prices_1
                      ELSE update_price(prices_1, run.batch_update_price),
           !.batch_new_stock = IF stock_raises THEN @ ELSE <<>>,
           !.batch_new_price = IF price_raises THEN @ ELSE <<>>,
           !.batch_update_stock = <<>>,
           !.batch_update_price = <<>>,
           !.attempts = @ \cup attempts,
           !.raised = @ \cup raised]

\* a failed write that ends the page loop
flush_raises_any(raised) == raised # {}

\* lines 308, 314, 323, 333: except: pass, no failure of a write leaves the
\* flush
flush_raises(raised) == FALSE

\* the loop at line 220 from page p on; page_fail is the page the storefront
\* answers with a status other than 200 or with an exception (0: none)
RECURSIVE page_loop(_, _, _, _, _, _, _)
page_loop(feed, p, page_fail, fails, existing_products, existing_prices, run) ==
    LET requested == [run EXCEPT !.pages = p]
        products == PageOf(feed, p)
    IN IF p = page_fail \/ products = <<>> THEN requested
       ELSE LET processed == process_page(products, existing_products, existing_prices,
                                          requested)
                flushed == IF p % flush_pages = 0 THEN flush(processed, p, fails)
                           ELSE processed
            IN IF flush_raises(flushed.raised \ run.raised) THEN flushed
               ELSE page_loop(feed, p + 1, page_fail, fails, existing_products,
                              existing_prices, flushed)

CountClass(classes, class) ==
    Cardinality({i \in 1..Len(classes) : classes[i].class = class})

AllWrites(feed) ==
    {Write(f, kind) : f \in {0} \cup {p \in 1..NumPages(feed) : p % flush_pages = 0},
                      kind \in WriteKinds}

ReadOutcomes == {"ok", "stock_failed", "price_failed"}

EmptyTable == [sku \in {} |-> 0]

\* the state of a run before its first page
StartOfRun(stock, prices) ==
    [stock |-> stock, prices |-> prices,
     batch_new_stock |-> <<>>, batch_new_price |-> <<>>,
     batch_update_stock |-> <<>>, batch_update_price |-> <<>>,
     classes |-> <<>>, attempts |-> {}, raised |-> {}, pages |-> 0]

\* a run that returns after the page loop, without the last flush
run_step1_no_last_flush(feed, page_fail, fails, existing_products, existing_prices, stock, prices) ==
    page_loop(feed, 1, page_fail, fails, existing_products, existing_prices,
              StartOfRun(stock, prices))

\* lines 220-372: the page loop and the last flush
run_step1(feed, page_fail, fails, existing_products, existing_prices, stock, prices) ==
    flush(page_loop(feed, 1, page_fail, fails, existing_products, existing_prices,
                    StartOfRun(stock, prices)),
          0, fails)

\* the sets of at most two writes of the kinds a run attempts
FailSets(feed, attempts) ==
    LET writes == {w \in AllWrites(feed) : \E a \in attempts : a.kind = w.kind}
    IN {{}} \cup {{w, v} : w \in writes, v \in writes}

\* one run of step1_import_woocommerce: reads is the outcome of the reads of
\* lines 200-208, fails are the writes the store fails; of the runs of one
\* behaviour only the first meets failures
step1_import_woocommerce ==
    /\ \E reads \in IF s1_ran THEN {"ok"} ELSE ReadOutcomes :
       \E page_fail \in IF s1_ran \/ reads # "ok" THEN {0} ELSE 0..NumPages(woo_feed) :
          LET existing_products == IF reads = "stock_failed" THEN EmptyTable
                                   ELSE claude_woo_stock
              existing_prices == IF reads = "ok" THEN claude_woo_prices ELSE EmptyTable
              calm == run_step1(woo_feed, page_fail, {}, existing_products,
                                existing_prices, claude_woo_stock, claude_woo_prices)
          IN \E fails \in IF s1_ran \/ reads # "ok" THEN {{}}
                           ELSE FailSets(woo_feed, calm.attempts) :
             LET out == run_step1(woo_feed, page_fail, fails, existing_products,
                                  existing_prices, claude_woo_stock, claude_woo_prices)
             IN /\ fails \subseteq out.attempts
                /\ claude_woo_stock' = out.stock
                /\ claude_woo_prices' = out.prices
                /\ s1_existing_products' = existing_products
                /\ s1_existing_prices' = existing_prices
                /\ s1_classes' = out.classes
                /\ s1_tallies' = [total_new |-> CountClass(out.classes, "new"),
                                  total_updated |-> CountClass(out.classes, "changed"),
                                  total_unchanged |-> CountClass(out.classes, "unchanged"),
                                  total_errors |-> CountClass(out.classes, "errored")]
                /\ s1_pages' = out.pages
                /\ s1_attempts' = out.attempts
                /\ s1_raised' = out.raised
                /\ s1_fails' = fails
                /\ s1_clean' = (reads = "ok" /\ page_fail = 0 /\ out.raised = {})
                /\ LogRun(<<"step1_start">>
                          \o (IF reads = "ok" THEN <<>> ELSE <<"step1_error">>)
                          \o <<"step1_complete">>)
    /\ s1_ran' = TRUE
    /\ UNCHANGED <<claude_sku_artcode_mapping, claude_foneday_inventory,
                   claude_foneday_cart, claude_foneday_orders_pending, foneday_live>>
    /\ UNCHANGED <<s4Vars, s5Vars, mapVars, woo_feed, runVars, scanVars, orderVars>>
    /\ UNCHANGED <<sessVars, cfgVars, pmVars, nzVars, catalogVars, s2Vars>>

\* the products a feed is made of: sku A1 with a quantity other than the
\* stored one, and with a null quantity and an empty price (the stored
\* quantity, another price); sku A2 with a price and with a text that is no
\* number; a product without a sku
FeedProducts ==
    {Product(A1, Quantity(3), Price(10000)),
     Product(A1, NullQuantity, EmptyPrice),
     Product(A2, Quantity(1), Price(4000)),
     Product(A2, Quantity(1), BadPrice),
     Product(<<>>, Quantity(1), Price(4000))}

Feeds == UNION {[1..n -> FeedProducts] : n \in 0..MaxFeed}

\* the stores a run starts from: empty; a record of A1 in both tables; a
\* stock record of A1 without a price record (what a run leaves whose insert
\* of the new prices failed)
SyncStores ==
    {[stock |-> EmptyTable, prices |-> EmptyTable],
     [stock |-> [sku \in {A1} |-> 0], prices |-> [sku \in {A1} |-> 10000]],
     [stock |-> [sku \in {A1} |-> 0], prices |-> EmptyTable]}

InitSync ==
    /\ DefaultConfig
    /\ LogUp
    /\ IdleSessions
    /\ IdleProfit
    /\ IdleNormalizer
    /\ EmptyCatalogTables
    /\ woo_feed \in Feeds
    /\ \E store \in SyncStores :
          /\ claude_woo_stock = store.stock
          /\ claude_woo_prices = store.prices
    /\ claude_sku_artcode_mapping = {}
    /\ claude_foneday_inventory = {}
    /\ claude_foneday_cart = <<>>
    /\ claude_foneday_orders_pending = <<>>
    /\ foneday_live = <<>>
    /\ NoStep4Yet
    /\ NoStep5Yet
    /\ IdleMapper
    /\ NoStep1Yet
    /\ NoRunYet
    /\ IdleScan

NextSync == step1_import_woocommerce

SpecSync == InitSync /\ [][NextSync]_vars

(***************************************************************************)
(* The restock pipeline (Spec): step 4, step 5 and the operator's actions  *)
(* on the page "Comenzi in Tranzit".                                       *)
(*                                                                         *)
(* claude_woo_stock and claude_woo_prices are functions from sku to the    *)
(* stock quantity and to the regular price in cents; the mapping and the   *)
(* inventory tables are sets of rows; the cart and the pending orders are  *)
(* sequences in insertion order, a row's id being its index.               *)
(***************************************************************************)
MaxCart == 2
MaxOrders == 1

MySkus == {A1, A2}
NoSku == ""

\* every arrangement of the elements of a finite set (rows come back from a
\* select without ORDER BY in any order)
Perms(S) == {f \in [1..Cardinality(S) -> S] : Range(f) = S}

RECURSIVE SumQuantity(_)
SumQuantity(orders) ==
    IF orders = <<>> THEN 0 ELSE Head(orders).quantity + SumQuantity(Tail(orders))

\* SelectSeq with the test written out: the rows of one sku with one status
OrdersOf(orders, sku, status) ==
    LET Match(o) == o.sku = sku /\ o.status = status
    IN SelectSeq(orders, Match)

\* the dict of lines 673-678 built from the rows whose status is "delivered"
pending_skus_delivered(orders) ==
    LET skus == {orders[i].sku : i \in {j \in 1..Len(orders) : orders[j].status = "delivered"}}
    IN [sku \in skus |-> SumQuantity(OrdersOf(orders, sku, "delivered"))]

\* the dict built from the rows of every status
pending_skus_any_status(orders) ==
    LET skus == {orders[i].sku : i \in 1..Len(orders)}
    IN [sku \in skus |-> SumQuantity(SelectSeq(orders, LAMBDA o : o.sku = sku))]

\* lines 671-678: sku -> summed quantity over the rows with status "pending"
pending_skus(orders) ==
    LET skus == {orders[i].sku : i \in {j \in 1..Len(orders) : orders[j].status = "pending"}}
    IN [sku \in skus |-> SumQuantity(OrdersOf(orders, sku, "pending"))]

\* the zero-stock select with lt in the place of lte
zero_stock_products_lt(stock) == {sku \in DOMAIN stock : stock[sku] < 0}

\* line 683: the skus whose stock_quantity is <= 0
zero_stock_products(stock) == {sku \in DOMAIN stock : stock[sku] <= 0}

\* lines 706-708
mapping_result(mapping, my_sku) == {m \in mapping : m.my_sku = my_sku}

\* lines 694-719: the (my_sku, foneday_sku) pairs the supplier is queried for
\* when the loop gets through the products of processed
step4_pairs(processed, pending, mapping) ==
    {<<m.my_sku, m.foneday_sku>> :
        m \in {r \in mapping : /\ r.my_sku \in processed
                               /\ r.my_sku \notin DOMAIN pending
                               /\ r.foneday_sku # NoSku}}

\* a table that keeps the latest snapshot only
upsert_inventory_latest(table, row) == {row}

\* upsert on_conflict="sku,foneday_sku" (lines 728-737)
upsert_inventory(table, row) ==
    {t \in table : ~(t.sku = row.sku /\ t.foneday_sku = row.foneday_sku)} \cup {row}

Live(instock, price) == [instock |-> instock, price |-> price]

\* None
NoProduct == Live("", 0)

\* lines 80-98: the product the supplier answers with, None when the request
\* raises or the status is not 200 (as for a SKU the supplier does not have)
get_foneday_product_by_sku(live, foneday_sku, outcome) ==
    IF outcome = "query_failed" \/ foneday_sku \notin DOMAIN live
    THEN NoProduct ELSE live[foneday_sku]

\* a failed query that leaves the scan
query_stops_scan_on_none(foneday_product) == foneday_product = NoProduct

\* lines 97-98: the exception of a query is caught in
\* get_foneday_product_by_sku, none leaves the loop
query_stops_scan(foneday_product) == FALSE

\* a snapshot written whatever the supplier reports
in_stock_any(foneday_product) == TRUE

\* line 724
in_stock(foneday_product) == foneday_product.instock = "Y"

\* lines 713-740 over the queried pairs (the outcome of the run does not
\* depend on their order): outcome[p] is "ok", "query_failed" or
\* "upsert_failed" (line 738).  A run is the inventory table, the pairs
\* queried, the snapshots submitted and the calls and sleeps
RECURSIVE step4_loop(_, _, _, _)
step4_loop(pairs, outcome, live, run) ==
    IF pairs = <<>> THEN run
    ELSE LET p == Head(pairs)
             foneday_product == get_foneday_product_by_sku(live, p[2], outcome[p])
             row == [sku |-> p[1], foneday_sku |-> p[2],
                     price_eur |-> foneday_product.price, instock |-> TRUE]
             submits == foneday_product # NoProduct /\ in_stock(foneday_product)
             next == [table |-> IF submits /\ outcome[p] # "upsert_failed"
                                THEN upsert_inventory(run.table, row) ELSE run.table,
                      queries |-> run.queries \cup {p},
                      upserts |-> IF submits THEN run.upserts \cup {row} ELSE run.upserts,
                      trace |-> run.trace \o <<"call", "sleep">>]
         IN IF query_stops_scan(foneday_product)
            THEN [run EXCEPT !.queries = @ \cup {p}, !.trace = @ \o <<"call">>]
            ELSE step4_loop(Tail(pairs), outcome, live, next)

Step4Outcomes == {"ok", "query_failed", "upsert_failed"}

\* one run of step4_check_stock_and_prices; processed are the zero-stock
\* products the loop gets through (all of them unless a read of the mapping
\* table raises)
\* what a run of step 4 leaves: out is the run of the loop over the pairs of
\* the products it got through
step4_run(processed, zero_stock, outcome, out) ==
    /\ claude_foneday_inventory' = out.table
    /\ s4_queries' = out.queries
    /\ s4_upserts' = out.upserts
    /\ s4_outcome' = outcome
    /\ s4_all' = (processed = zero_stock)
    /\ s4_clean' = (processed = zero_stock /\ \A p \in DOMAIN outcome : outcome[p] = "ok")
    /\ api_trace' = out.trace
    /\ LogRun(<<"step4_start">>
              \o (IF processed = zero_stock /\ zero_stock # {}
                  THEN <<"step4_complete">> ELSE <<>>))

step4_check_stock_and_prices ==
    /\ \E processed \in SUBSET zero_stock_products(claude_woo_stock) :
       \E outcome \in [step4_pairs(processed, pending_skus(claude_foneday_orders_pending),
                                   claude_sku_artcode_mapping) -> Step4Outcomes] :
          step4_run(processed, zero_stock_products(claude_woo_stock), outcome,
                    step4_loop(TableSeq(DOMAIN outcome), outcome, foneday_live,
                               [table |-> claude_foneday_inventory, queries |-> {},
                                upserts |-> {}, trace |-> <<>>]))
    /\ s4_ran' = TRUE
    /\ s5_ran' = FALSE
    /\ s5_clean' = FALSE
    /\ s5_calls' = <<>>
    /\ s5_cart_before' = 0
    /\ s5_tallies' = NoStep5Tallies
    /\ commit_lost' = 0
    /\ commit_errors' = 0
    /\ profit_args' = {}
    /\ UNCHANGED <<claude_woo_stock, claude_woo_prices, claude_sku_artcode_mapping,
                   claude_foneday_cart, claude_foneday_orders_pending, foneday_live>>
    /\ UNCHANGED <<sessVars, cfgVars, pmVars, nzVars, catalogVars, s2Vars>>
    /\ UNCHANGED <<extVars, scanVars, orderVars>>

\* an item the loop of step 5 leaves with continue (lines 782, 787)
NoEffect ==
    [calls |-> <<>>, entries |-> <<>>, trace |-> <<>>, evaluated |-> {},
     added_to_cart |-> 0, not_profitable |-> 0, lost |-> 0]

\* lines 789-811: the cart-add of an accepted item and its CartEntry; a
\* failed insert is passed over (line 811) and counted nowhere
\* the commit with the CartEntry appended whatever the cart-add returned
step5_commit_unchecked(my_sku, foneday_sku, foneday_price, woo_price, outcome) ==
    [calls |-> <<[sku |-> my_sku, foneday_sku |-> foneday_sku, quantity |-> 2,
                  ok |-> outcome # "call_failed"]>>,
     entries |->
         IF outcome # "insert_failed"
         THEN <<[sku |-> my_sku, foneday_sku |-> foneday_sku, quantity |-> 2,
                 price_eur |-> foneday_price, woo_price_ron |-> woo_price,
                 profit_margin |-> calculate_profit_margin(foneday_price, woo_price),
                 status |-> "added_to_cart"]>>
         ELSE <<>>,
     trace |-> <<"call", "sleep">>,
     evaluated |-> {<<foneday_price, woo_price>>},
     added_to_cart |-> IF outcome # "insert_failed" THEN 1 ELSE 0,
     not_profitable |-> 0,
     lost |-> IF outcome = "insert_failed" THEN 1 ELSE 0]

\* lines 789-811: the cart-add call and the CartEntry of an accepted item
step5_commit(my_sku, foneday_sku, foneday_price, woo_price, outcome) ==
    [calls |-> <<[sku |-> my_sku, foneday_sku |-> foneday_sku, quantity |-> 2,
                  ok |-> outcome # "call_failed"]>>,
     entries |->
         IF outcome = "ok"
         THEN <<[sku |-> my_sku, foneday_sku |-> foneday_sku, quantity |-> 2,
                 price_eur |-> foneday_price, woo_price_ron |-> woo_price,
                 profit_margin |-> calculate_profit_margin(foneday_price, woo_price),
                 status |-> "added_to_cart"]>>
         ELSE <<>>,
     trace |-> <<"call", "sleep">>,
     evaluated |-> {<<foneday_price, woo_price>>},
     added_to_cart |-> IF outcome = "ok" THEN 1 ELSE 0,
     not_profitable |-> 0,
     lost |-> IF outcome = "insert_failed" THEN 1 ELSE 0]

\* step 5's decision for one item with the cart-add issued whatever
\* is_profitable answers
step5_item_always(item, prices, outcome) ==
    LET my_sku == item.sku
        foneday_sku == item.foneday_sku
        foneday_price == item.price_eur
    IN IF my_sku \notin DOMAIN prices THEN NoEffect
       ELSE LET woo_price == prices[my_sku]
            IN IF woo_price <= 0 \/ foneday_price <= 0 THEN NoEffect
               ELSE step5_commit(my_sku, foneday_sku, foneday_price, woo_price, outcome)

\* step 5's decision for one item without the look at the sign of the prices
step5_item_unguarded(item, prices, outcome) ==
    LET my_sku == item.sku
        foneday_sku == item.foneday_sku
        foneday_price == item.price_eur
    IN IF my_sku \notin DOMAIN prices THEN NoEffect
       ELSE LET woo_price == prices[my_sku]
            IN IF woo_price > 0 /\ is_profitable(foneday_price, woo_price)
               THEN step5_commit(my_sku, foneday_sku, foneday_price, woo_price, outcome)
               ELSE [NoEffect EXCEPT !.trace = <<"sleep">>, !.not_profitable = 1,
                                     !.evaluated = {<<foneday_price, woo_price>>}]

\* lines 772-815 for one inventory row: the cart-add calls issued, the cart
\* rows appended, the calls and sleeps, what it adds to the tallies; outcome
\* is "ok", "call_failed" (add_to_foneday_cart returns None) or
\* "insert_failed" (line 811)
step5_item(item, prices, outcome) ==
    LET my_sku == item.sku
        foneday_sku == item.foneday_sku
        foneday_price == item.price_eur
    IN IF my_sku \notin DOMAIN prices THEN NoEffect
       ELSE LET woo_price == prices[my_sku]
            IN IF woo_price <= 0 \/ foneday_price <= 0 THEN NoEffect
               ELSE IF is_profitable(foneday_price, woo_price)
                    THEN step5_commit(my_sku, foneday_sku, foneday_price, woo_price, outcome)
                    ELSE [NoEffect EXCEPT !.trace = <<"sleep">>, !.not_profitable = 1,
                                          !.evaluated = {<<foneday_price, woo_price>>}]

\* the loop with a look at the cart: an item whose pair has an entry waiting
\* for confirmation is passed over
RECURSIVE step5_loop_dedup(_, _, _, _)
step5_loop_dedup(available_products, prices, outcome, run) ==
    IF available_products = <<>> THEN run
    ELSE LET item == Head(available_products)
             waiting == \E i \in 1..Len(run.cart) :
                            /\ run.cart[i].sku = item.sku
                            /\ run.cart[i].foneday_sku = item.foneday_sku
                            /\ run.cart[i].status = "added_to_cart"
             effect == IF waiting THEN NoEffect
                       ELSE step5_item(item, prices, Head(outcome))
         IN step5_loop_dedup(Tail(available_products), prices, Tail(outcome),
                       [cart |-> run.cart \o effect.entries,
                        calls |-> run.calls \o effect.calls,
                        trace |-> run.trace \o effect.trace,
                        evaluated |-> run.evaluated \cup effect.evaluated,
                        added_to_cart |-> run.added_to_cart + effect.added_to_cart,
                        not_profitable |-> run.not_profitable + effect.not_profitable,
                        lost |-> run.lost + effect.lost])

\* the loop at line 771 over available_products
RECURSIVE step5_loop(_, _, _, _)
step5_loop(available_products, prices, outcome, run) ==
    IF available_products = <<>> THEN run
    ELSE LET effect == step5_item(Head(available_products), prices, Head(outcome))
         IN step5_loop(Tail(available_products), prices, Tail(outcome),
                       [cart |-> run.cart \o effect.entries,
                        calls |-> run.calls \o effect.calls,
                        trace |-> run.trace \o effect.trace,
                        evaluated |-> run.evaluated \cup effect.evaluated,
                        added_to_cart |-> run.added_to_cart + effect.added_to_cart,
                        not_profitable |-> run.not_profitable + effect.not_profitable,
                        lost |-> run.lost + effect.lost])

Step5Outcomes == {"ok", "call_failed", "insert_failed"}

\* line 761
inventory_result(inventory) == {r \in inventory : r.instock}

\* what a run of step 5 leaves: out is the run of the loop over the first n
\* rows of order
step5_run(order, n, outcome, out) ==
    /\ claude_foneday_cart' = out.cart
    /\ s5_calls' = out.calls
    /\ s5_clean' = (n = Len(order) /\ \A i \in 1..n : outcome[i] = "ok")
    /\ s5_tallies' = [added_to_cart |-> out.added_to_cart,
                      not_profitable |-> out.not_profitable]
    /\ api_trace' = out.trace
    /\ profit_args' = out.evaluated
    /\ commit_lost' = out.lost
    /\ commit_errors' = 0
    /\ LogRun(<<"step5_start">>
              \o Times(out.added_to_cart, "step5_add")
              \o (IF n = Len(order) /\ order # <<>>
                  THEN <<"step5_complete">> ELSE <<>>))

\* one run of step5_add_to_cart; the loop gets through the first n rows (all
\* of them unless a read of the price table raises).  Step 5 keeps no tally
\* of errors
step5_add_to_cart ==
    /\ Len(claude_foneday_cart) + Cardinality(inventory_result(claude_foneday_inventory)) <= MaxCart
    /\ \E order \in Perms(inventory_result(claude_foneday_inventory)) :
       \E n \in 0..Len(order) :
       \E outcome \in [1..n -> Step5Outcomes] :
          step5_run(order, n, outcome,
                    step5_loop(SubSeq(order, 1, n), claude_woo_prices, outcome,
                               [cart |-> claude_foneday_cart, calls |-> <<>>,
                                trace |-> <<>>, evaluated |-> {}, added_to_cart |-> 0,
                                not_profitable |-> 0, lost |-> 0]))
    /\ s5_ran' = TRUE
    /\ s5_cart_before' = Len(claude_foneday_cart)
    /\ UNCHANGED <<claude_woo_stock, claude_woo_prices, claude_sku_artcode_mapping,
                   claude_foneday_inventory, claude_foneday_orders_pending, foneday_live>>
    /\ UNCHANGED <<s4Vars, s4_outcome, s4_all, s4_upserts>>
    /\ UNCHANGED <<sessVars, cfgVars, pmVars, nzVars, catalogVars, s2Vars>>
    /\ UNCHANGED <<extVars, scanVars, orderVars>>

\* an operator's action ends the record of the latest pipeline runs
ForgetRuns ==
    /\ s4_ran' = FALSE
    /\ s4_clean' = FALSE
    /\ s4_queries' = {}
    /\ s5_ran' = FALSE
    /\ s5_clean' = FALSE
    /\ s5_calls' = <<>>
    /\ s5_cart_before' = 0
    /\ s4_outcome' = <<>>
    /\ s4_all' = FALSE
    /\ s4_upserts' = {}
    /\ s5_tallies' = NoStep5Tallies
    /\ api_trace' = <<>>
    /\ commit_lost' = 0
    /\ commit_errors' = 0
    /\ profit_args' = {}
    /\ claude_sync_logs' = <<>>
    /\ log_raised' = FALSE

\* lines 1531-1541: the PendingOrder of cart row id; the row takes the
\* created_at of the cart row as its order_date (the place of the row in the
\* cart table stands for its created_at)
PendingOrderOf(item, id) ==
    [sku |-> item.sku, foneday_sku |-> item.foneday_sku,
     quantity |-> item.quantity, order_date |-> id, status |-> "pending"]

ConfirmOutcomes == {"ok", "insert_failed", "update_failed"}

\* tab "Cos de Confirmat", lines 1506-1551: the button of a listed cart row
ConfirmOrder ==
    /\ Len(claude_foneday_orders_pending) < MaxOrders
    /\ \E id \in 1..Len(claude_foneday_cart), outcome \in ConfirmOutcomes :
          LET item == claude_foneday_cart[id]
          IN /\ item.status = "added_to_cart"
             /\ claude_foneday_orders_pending' =
                    IF outcome = "insert_failed" THEN claude_foneday_orders_pending
                    ELSE Append(claude_foneday_orders_pending, PendingOrderOf(item, id))
             /\ claude_foneday_cart' =
                    IF outcome = "ok"
                    THEN [claude_foneday_cart EXCEPT ![id].status = "confirmed"]
                    ELSE claude_foneday_cart
    /\ ForgetRuns
    /\ UNCHANGED <<claude_woo_stock, claude_woo_prices, claude_sku_artcode_mapping,
                   claude_foneday_inventory, foneday_live>>
    /\ UNCHANGED <<log_faults, sessVars, cfgVars, pmVars, nzVars, catalogVars, s2Vars>>
    /\ UNCHANGED <<extVars, scanVars, orderVars>>

\* the update of lines 1589-1592 and 1603-1606 on a listed pending order
SetOrderStatus(status) ==
    /\ \E id \in 1..Len(claude_foneday_orders_pending), ok \in BOOLEAN :
          /\ claude_foneday_orders_pending[id].status = "pending"
          /\ claude_foneday_orders_pending' =
                 IF ok THEN [claude_foneday_orders_pending EXCEPT ![id].status = status]
                 ELSE claude_foneday_orders_pending
    /\ ForgetRuns
    /\ UNCHANGED <<claude_woo_stock, claude_woo_prices, claude_sku_artcode_mapping,
                   claude_foneday_inventory, claude_foneday_cart, foneday_live>>
    /\ UNCHANGED <<log_faults, sessVars, cfgVars, pmVars, nzVars, catalogVars, s2Vars>>
    /\ UNCHANGED <<extVars, scanVars, orderVars>>

\* tab "In Tranzit", button "Livrat"
DeliverOrder == SetOrderStatus("delivered")

\* tab "In Tranzit", button "Anuleaza"
CancelOrder == SetOrderStatus("cancelled")

\* the stores the pipeline starts from
StockOptions == {[sku \in MySkus |-> IF sku = A1 THEN q1 ELSE q2] : q1 \in {0, 1}, q2 \in {-1, 1}}

PriceOptions ==
    {[sku \in MySkus |-> IF sku = A1 THEN p ELSE 10000] : p \in {0, 4000, 10000}}
    \cup {[sku \in {A2} |-> 10000]}

MappingOptions ==
    {{Mapping(A1, A1, "F1"), Mapping(A2, A2, "F2")},
     {Mapping(A1, A1, "F1"), Mapping(A1, <<"A">>, "F2")},
     {Mapping(A1, A1, NoSku), Mapping(A2, A2, "F2")}}

LiveOptions ==
    {[f \in FonedaySkus |-> IF f = "F1" THEN l ELSE Live("Y", 1000)] :
        l \in {Live("N", 1000), Live("Y", 0), Live("Y", 1000)}}

Init ==
    /\ DefaultConfig
    /\ IdleProfit
    /\ IdleNormalizer
    /\ EmptyCatalogTables
    /\ claude_woo_stock \in StockOptions
    /\ claude_woo_prices \in PriceOptions
    /\ claude_sku_artcode_mapping \in MappingOptions
    /\ foneday_live \in LiveOptions
    /\ claude_foneday_inventory = {}
    /\ claude_foneday_cart = <<>>
    /\ claude_foneday_orders_pending = <<>>
    /\ NoStep4Yet
    /\ NoStep5Yet
    /\ IdleOthers

Next ==
    \/ step4_check_stock_and_prices
    \/ step5_add_to_cart
    \/ ConfirmOrder
    \/ DeliverOrder
    \/ CancelOrder

Spec == Init /\ [][Next]_vars

\* ---------------------------------------------------------------------
\* The opportunity scan and the operator's order (page "Oportunitati Profit")
\* ---------------------------------------------------------------------

\* lines 1324-1329: quantities the operator types (0 to 100)
QuantityChoices == {0, 1, 2}

\* line 901: the scan sleeps after the items whose index divides by this
scan_sleep_every == 10

\* lines 1229-1236: values of the slider (15 to 100 in steps of 5)
MinProfitChoices == {15, 30, 40, 100}

\* lines 885-895; name, title and quality are shown only
Opportunity(my_sku, foneday_sku, woo_price, foneday_price, stock_quantity) ==
    [sku |-> my_sku, foneday_sku |-> foneday_sku, woo_price_ron |-> woo_price,
     foneday_price_eur |-> foneday_price,
     profit_margin |-> calculate_profit_margin(foneday_price, woo_price),
     current_stock |-> stock_quantity]

\* lines 877-895: what the scan makes of the product the supplier returned
scan_product(foneday_product, my_sku, foneday_sku, woo_price, stock_quantity, min_profit_percent) ==
    LET priced == /\ foneday_product # NoProduct
                  /\ foneday_product.instock = "Y"
                  /\ foneday_product.price > 0
    IN [found |-> IF /\ priced
                     /\ RLeq(Rat(min_profit_percent, 1),
                             calculate_profit_margin(foneday_product.price, woo_price))
                  THEN <<Opportunity(my_sku, foneday_sku, woo_price,
                                     foneday_product.price, stock_quantity)>>
                  ELSE <<>>,
        called |-> TRUE, continued |-> FALSE,
        evaluated |-> IF priced THEN {<<foneday_product.price, woo_price>>} ELSE {}]

\* lines 857-873: the item is left with continue
scan_skipped == [found |-> <<>>, called |-> FALSE, continued |-> TRUE, evaluated |-> {}]

\* the scan item without the look at the stock of the SKU
scan_item_any_stock(mapping, stock, prices, live, min_profit_percent, outcome) ==
    IF mapping.my_sku \notin DOMAIN stock THEN scan_skipped
    ELSE IF mapping.my_sku \notin DOMAIN prices THEN scan_skipped
    ELSE IF prices[mapping.my_sku] <= 0 THEN scan_skipped
    ELSE scan_product(get_foneday_product_by_sku(live, mapping.foneday_sku, outcome),
                      mapping.my_sku, mapping.foneday_sku, prices[mapping.my_sku],
                      stock[mapping.my_sku], min_profit_percent)

\* lines 849-899 for the mapping at index idx (from 0): the opportunity
\* found, if any, and whether the supplier was called; the items left with
\* continue (lines 858, 863, 868, 873) call nothing and skip the sleep
scan_item(mapping, stock, prices, live, min_profit_percent, outcome) ==
    IF mapping.my_sku \notin DOMAIN stock THEN scan_skipped
    ELSE IF stock[mapping.my_sku] <= 0 THEN scan_skipped
    ELSE IF mapping.my_sku \notin DOMAIN prices THEN scan_skipped
    ELSE IF prices[mapping.my_sku] <= 0 THEN scan_skipped
    ELSE scan_product(get_foneday_product_by_sku(live, mapping.foneday_sku, outcome),
                      mapping.my_sku, mapping.foneday_sku, prices[mapping.my_sku],
                      stock[mapping.my_sku], min_profit_percent)

\* line 901
scan_sleeps(idx) == idx % scan_sleep_every = 0

\* lines 885-902: the run after an item at index idx
scan_next(run, item, idx) ==
    [opportunities |-> run.opportunities \o item.found,
     found |-> run.found + Len(item.found),
     evaluated |-> run.evaluated \cup item.evaluated,
     trace |-> run.trace
               \o (IF item.called THEN <<"call">> ELSE <<>>)
               \o (IF ~item.continued /\ scan_sleeps(idx)
                   THEN <<"sleep">> ELSE <<>>)]

\* lines 848-902: the loop over the mappings from index idx on
RECURSIVE scan_loop(_, _, _, _, _, _, _, _)
scan_loop(mappings, idx, stock, prices, live, min_profit_percent, outcome, run) ==
    IF mappings = <<>> THEN run
    ELSE scan_loop(Tail(mappings), idx + 1, stock, prices, live,
                   min_profit_percent, Tail(outcome),
                   scan_next(run,
                             scan_item(Head(mappings), stock, prices, live,
                                       min_profit_percent, Head(outcome)),
                             idx))

\* lines 826-914: the first n mappings are gone through; when n is short of
\* all of them a store read raised on the next one and the result is []
\* (line 912)
find_high_profit_opportunities(mappings, n, stock, prices, live, min_profit_percent, outcome) ==
    LET run == scan_loop(SubSeq(mappings, 1, n), 0, stock, prices, live,
                         min_profit_percent, outcome,
                         [opportunities |-> <<>>, found |-> 0, trace |-> <<>>,
                          evaluated |-> {}])
    IN [run EXCEPT !.opportunities = IF n < Len(mappings) THEN <<>> ELSE @]

ScanOutcomes == {"ok", "query_failed"}

\* lines 1242-1249: the button "CAUTA OPORTUNITATI", once in a behaviour (an
\* earlier scan of the session is in the initial state); the mapping table
\* is read in either order; the session keeps the result only when it is not
\* empty
SearchOpportunities ==
    /\ ~scan_ran
    /\ \E min_profit \in MinProfitChoices :
       \E mappings \in {TableSeq(claude_sku_artcode_mapping),
                        Reverse(TableSeq(claude_sku_artcode_mapping))} :
       \E n \in 0..Len(mappings) :
       \E outcome \in [1..n -> ScanOutcomes] :
          LET out == find_high_profit_opportunities(mappings, n, claude_woo_stock,
                         claude_woo_prices, foneday_live, min_profit, outcome)
          IN /\ scan_result' = out.opportunities
             /\ opportunities' = IF out.opportunities # <<>>
                                 THEN out.opportunities ELSE opportunities
             /\ api_trace' = out.trace
             /\ profit_args' = out.evaluated
             /\ scan_min_profit' = min_profit
             /\ LogRun(<<"opportunities_start">>
                       \o Times(out.found, "opportunity_found")
                       \o (IF n < Len(mappings) THEN <<"opportunities_error">>
                           ELSE IF mappings # <<>> THEN <<"opportunities_complete">>
                           ELSE <<>>))
    /\ scan_ran' = TRUE
    /\ order_ran' = FALSE
    /\ order_placed' = <<>>
    /\ order_calls' = <<>>
    /\ order_cart_before' = 0
    /\ order_tallies' = NoOrderTallies
    /\ order_quantities' = <<>>
    /\ order_outcomes' = <<>>
    /\ commit_lost' = 0
    /\ commit_errors' = 0
    /\ UNCHANGED <<s4_outcome, s4_all, s4_upserts, s5_tallies>>
    /\ UNCHANGED <<sessVars, cfgVars, pmVars, nzVars, catalogVars, s2Vars, pipeVars, extVars>>

\* the list with every opportunity in it, whatever its quantity
RECURSIVE to_order_all(_, _, _)
to_order_all(opps, quantities, idx) ==
    IF idx > Len(opps) THEN <<>>
    ELSE <<[opportunity |-> opps[idx], quantity |-> quantities[idx]]>>
         \o to_order_all(opps, quantities, idx + 1)

\* lines 1342-1348
RECURSIVE to_order(_, _, _)
to_order(opps, quantities, idx) ==
    IF idx > Len(opps) THEN <<>>
    ELSE (IF quantities[idx] > 0
          THEN <<[opportunity |-> opps[idx], quantity |-> quantities[idx]]>>
          ELSE <<>>) \o to_order(opps, quantities, idx + 1)

\* lines 1362-1392 for one item: outcome is "ok", "call_failed"
\* (add_to_foneday_cart returns None, line 1390) or "insert_failed"
\* (line 1388)
order_item(item, outcome) ==
    LET opp == item.opportunity
        qty == item.quantity
    IN [calls |-> <<[sku |-> opp.sku, foneday_sku |-> opp.foneday_sku,
                     quantity |-> qty, ok |-> outcome # "call_failed"]>>,
        entries |->
            IF outcome = "ok"
            THEN <<[sku |-> opp.sku, foneday_sku |-> opp.foneday_sku, quantity |-> qty,
                    price_eur |-> opp.foneday_price_eur,
                    woo_price_ron |-> opp.woo_price_ron,
                    profit_margin |-> opp.profit_margin,
                    status |-> "added_to_cart"]>>
            ELSE <<>>,
        trace |-> <<"call", "sleep">>,
        success_count |-> IF outcome = "ok" THEN 1 ELSE 0,
        error_count |-> IF outcome = "ok" THEN 0 ELSE 1,
        lost |-> IF outcome = "insert_failed" THEN 1 ELSE 0]

\* the loop at line 1361
RECURSIVE order_loop(_, _, _)
order_loop(items, outcome, run) ==
    IF items = <<>> THEN run
    ELSE LET effect == order_item(Head(items), Head(outcome))
         IN order_loop(Tail(items), Tail(outcome),
                       [cart |-> run.cart \o effect.entries,
                        calls |-> run.calls \o effect.calls,
                        trace |-> run.trace \o effect.trace,
                        success_count |-> run.success_count + effect.success_count,
                        error_count |-> run.error_count + effect.error_count,
                        lost |-> run.lost + effect.lost])

\* lines 1284-1392: the button "PLASEAZA COMANDA" with the quantities the
\* operator typed, once for a list; with no quantity above 0 nothing is
\* placed (line 1350)
PlaceOrder ==
    /\ ~order_ran
    /\ opportunities # <<>>
    /\ \E quantities \in [1..Len(opportunities) -> QuantityChoices] :
          LET items == to_order(opportunities, quantities, 1)
          IN /\ items # <<>>
             /\ Len(claude_foneday_cart) + Len(items) <= MaxCart
             /\ \E outcome \in [1..Len(items) -> Step5Outcomes] :
                   LET out == order_loop(items, outcome,
                                  [cart |-> claude_foneday_cart, calls |-> <<>>,
                                   trace |-> <<>>, success_count |-> 0,
                                   error_count |-> 0, lost |-> 0])
                   IN /\ claude_foneday_cart' = out.cart
                      /\ order_placed' = items
                      /\ order_quantities' = quantities
                      /\ order_outcomes' = outcome
                      /\ order_calls' = out.calls
                      /\ order_tallies' = [success_count |-> out.success_count,
                                           error_count |-> out.error_count]
                      /\ api_trace' = out.trace
                      /\ commit_lost' = out.lost
                      /\ commit_errors' = out.error_count
                      /\ profit_args' = {}
                      /\ LogRun(Times(out.success_count, "opportunity_order"))
    /\ order_ran' = TRUE
    /\ order_cart_before' = Len(claude_foneday_cart)
    /\ UNCHANGED <<claude_woo_stock, claude_woo_prices, claude_sku_artcode_mapping,
                   claude_foneday_inventory, claude_foneday_orders_pending, foneday_live>>
    /\ UNCHANGED <<s4Vars, s5Vars, s4_outcome, s4_all, s4_upserts, s5_tallies>>
    /\ UNCHANGED <<sessVars, cfgVars, pmVars, nzVars, catalogVars, s2Vars, extVars, scanVars>>

\* the stores a scan finds: three mappings with stock and price, a SKU
\* without stock, a SKU without a stock record, a SKU priced 0, a mapping
\* without a supplier SKU, no mapping at all
ScanStore(mapping, stock, prices) ==
    [mapping |-> mapping, stock |-> stock, prices |-> prices]

ThreeMappings ==
    {Mapping(A1, A1, "F1"), Mapping(A1, <<"A">>, "F2"), Mapping(A2, A2, "F2")}

ScanStores ==
    {ScanStore(ThreeMappings, [sku \in MySkus |-> IF sku = A1 THEN 3 ELSE 1],
               [sku \in MySkus |-> IF sku = A1 THEN 10000 ELSE 20000]),
     ScanStore(ThreeMappings, [sku \in MySkus |-> IF sku = A1 THEN 3 ELSE 0],
               [sku \in MySkus |-> IF sku = A1 THEN 10000 ELSE 20000]),
     ScanStore(ThreeMappings, [sku \in {A1} |-> 3],
               [sku \in MySkus |-> IF sku = A1 THEN 10000 ELSE 20000]),
     ScanStore(ThreeMappings, [sku \in MySkus |-> IF sku = A1 THEN 3 ELSE 1],
               [sku \in MySkus |-> IF sku = A1 THEN 10000 ELSE 0]),
     ScanStore({Mapping(A1, A1, "F1"), Mapping(A2, A2, NoSku)},
               [sku \in MySkus |-> IF sku = A1 THEN 3 ELSE 1],
               [sku \in MySkus |-> IF sku = A1 THEN 10000 ELSE 20000]),
     ScanStore({}, [sku \in MySkus |-> IF sku = A1 THEN 3 ELSE 1],
               [sku \in MySkus |-> IF sku = A1 THEN 10000 ELSE 20000])}

\* the list an earlier scan of the session left, if any
EarlierOpportunities ==
    {<<>>, <<Opportunity(A2, "F2", 20000, 1000, 1)>>}

InitScan ==
    /\ DefaultConfig
    /\ LogUp
    /\ IdleSessions
    /\ IdleProfit
    /\ IdleNormalizer
    /\ EmptyCatalogTables
    /\ \E store \in ScanStores :
          /\ claude_sku_artcode_mapping = store.mapping
          /\ claude_woo_stock = store.stock
          /\ claude_woo_prices = store.prices
    /\ foneday_live \in LiveOptions
    /\ claude_foneday_inventory = {}
    /\ claude_foneday_cart = <<>>
    /\ claude_foneday_orders_pending = <<>>
    /\ NoStep4Yet
    /\ NoStep5Yet
    /\ IdleMapper
    /\ IdleSync
    /\ NoRunYet
    /\ opportunities \in EarlierOpportunities
    /\ NoScanYet
    /\ NoOrderYet

NextScan ==
    \/ SearchOpportunities
    \/ PlaceOrder

SpecScan == InitScan /\ [][NextScan]_vars

\* ---------------------------------------------------------------------
\* The page "Comenzi in Tranzit" with two operator sessions.  A click reruns
\* the page in the thread of the session: the rerun reads the list, finds
\* the button that was clicked and issues the writes of the button one
\* request at a time; the requests of two sessions interleave
\* ---------------------------------------------------------------------

MaxTransit == 3

\* the ids of the rows of seq with the status, in rising order
RECURSIVE IdsWithStatus(_, _, _)
IdsWithStatus(seq, id, status) ==
    IF id > Len(seq) THEN <<>>
    ELSE (IF seq[id].status = status THEN <<id>> ELSE <<>>)
         \o IdsWithStatus(seq, id + 1, status)

\* line 1506: the cart rows waiting for confirmation, latest first
cart_to_confirm(cart) == Reverse(IdsWithStatus(cart, 1, "added_to_cart"))

\* line 1558: the orders in transit
orders_in_transit(orders) == IdsWithStatus(orders, 1, "pending")

\* an update that puts a confirmed row back on the list
confirm_update_toggle(cart, id) ==
    [cart EXCEPT ![id].status =
        IF @ = "confirmed" THEN "added_to_cart" ELSE "confirmed"]

\* lines 1543-1545: the update of the cart row, by id
confirm_update(cart, id) == [cart EXCEPT ![id].status = "confirmed"]

\* lines 1589-1592, 1603-1606: the update of the order, by id and whatever
\* its status is
set_status(orders, id, status) == [orders EXCEPT ![id].status = status]

Goto(s, pc, row, status) ==
    /\ session_pc' = [session_pc EXCEPT ![s] = pc]
    /\ session_row' = [session_row EXCEPT ![s] = row]
    /\ session_status' = [session_status EXCEPT ![s] = status]

TransitTablesUnchanged ==
    UNCHANGED <<claude_woo_stock, claude_woo_prices, claude_sku_artcode_mapping,
                claude_foneday_inventory, foneday_live>>

OthersUnchanged ==
    UNCHANGED <<log_faults, cfgVars, pmVars, nzVars, catalogVars, s2Vars, extVars, scanVars, orderVars>>

\* lines 1506-1529: the rerun after a click on "Confirma Comanda" reads the
\* list and finds the button of one of its rows
ClickConfirm(s) ==
    /\ session_pc[s] = "idle"
    /\ \E idx \in 1..Len(cart_to_confirm(claude_foneday_cart)) :
          Goto(s, "confirm_insert", cart_to_confirm(claude_foneday_cart)[idx], "")
    /\ UNCHANGED <<pipeVars, runVars, claude_sync_logs, log_raised>>
    /\ OthersUnchanged

\* lines 1531-1541: the insert of the PendingOrder; when it raises the
\* handler ends at line 1550
ConfirmInsert(s) ==
    /\ session_pc[s] = "confirm_insert"
    /\ Len(claude_foneday_orders_pending) < MaxTransit
    /\ \E ok \in BOOLEAN :
          /\ claude_foneday_orders_pending' =
                 IF ok THEN Append(claude_foneday_orders_pending,
                                   PendingOrderOf(claude_foneday_cart[session_row[s]],
                                                  session_row[s]))
                 ELSE claude_foneday_orders_pending
          /\ IF ok THEN Goto(s, "confirm_update", session_row[s], "")
             ELSE Goto(s, "idle", 0, "")
    /\ ForgetRuns
    /\ UNCHANGED claude_foneday_cart
    /\ TransitTablesUnchanged
    /\ OthersUnchanged

\* lines 1543-1551: the update of the cart row; when it raises the row stays
\* as it is
ConfirmUpdate(s) ==
    /\ session_pc[s] = "confirm_update"
    /\ \E ok \in BOOLEAN :
          claude_foneday_cart' =
              IF ok THEN confirm_update(claude_foneday_cart, session_row[s])
              ELSE claude_foneday_cart
    /\ Goto(s, "idle", 0, "")
    /\ ForgetRuns
    /\ UNCHANGED claude_foneday_orders_pending
    /\ TransitTablesUnchanged
    /\ OthersUnchanged

\* lines 1558-1601: the rerun after a click on "Livrat" or "Anuleaza" reads
\* the list and finds the button of one of its rows
ClickStatus(s, status) ==
    /\ session_pc[s] = "idle"
    /\ \E idx \in 1..Len(orders_in_transit(claude_foneday_orders_pending)) :
          Goto(s, "set_status",
               orders_in_transit(claude_foneday_orders_pending)[idx], status)
    /\ UNCHANGED <<pipeVars, runVars, claude_sync_logs, log_raised>>
    /\ OthersUnchanged

\* lines 1589-1598, 1603-1612: the update of the order
SetStatus(s) ==
    /\ session_pc[s] = "set_status"
    /\ \E ok \in BOOLEAN :
          claude_foneday_orders_pending' =
              IF ok THEN set_status(claude_foneday_orders_pending, session_row[s],
                                    session_status[s])
              ELSE claude_foneday_orders_pending
    /\ Goto(s, "idle", 0, "")
    /\ ForgetRuns
    /\ UNCHANGED claude_foneday_cart
    /\ TransitTablesUnchanged
    /\ OthersUnchanged

\* a cart row step 5 appended for sku
WaitingEntry(sku, foneday_sku) ==
    [sku |-> sku, foneday_sku |-> foneday_sku, quantity |-> 2, price_eur |-> 1000,
     woo_price_ron |-> 10000, profit_margin |-> calculate_profit_margin(1000, 10000),
     status |-> "added_to_cart"]

\* the cart and the orders the page finds: one row waiting; two rows
\* waiting; one row waiting and one confirmed, with its order in transit
TransitStores ==
    {[cart |-> <<WaitingEntry(A1, "F1")>>, orders |-> <<>>],
     [cart |-> <<WaitingEntry(A1, "F1"), WaitingEntry(A2, "F2")>>, orders |-> <<>>],
     [cart |-> <<WaitingEntry(A1, "F1"),
                 [WaitingEntry(A2, "F2") EXCEPT !.status = "confirmed"]>>,
      orders |-> <<PendingOrderOf(WaitingEntry(A2, "F2"), 2)>>]}

InitTransit ==
    /\ DefaultConfig
    /\ LogUp
    /\ IdleProfit
    /\ IdleNormalizer
    /\ EmptyCatalogTables
    /\ claude_woo_stock = [sku \in MySkus |-> 0]
    /\ claude_woo_prices = [sku \in MySkus |-> 10000]
    /\ claude_sku_artcode_mapping = {Mapping(A1, A1, "F1"), Mapping(A2, A2, "F2")}
    /\ foneday_live = [f \in FonedaySkus |-> Live("Y", 1000)]
    /\ claude_foneday_inventory = {}
    /\ \E store \in TransitStores :
          /\ claude_foneday_cart = store.cart
          /\ claude_foneday_orders_pending = store.orders
    /\ NoStep4Yet
    /\ NoStep5Yet
    /\ IdleMapper
    /\ IdleSync
    /\ NoRunYet
    /\ IdleScan
    /\ IdleSessions

NextTransit ==
    \E s \in Sessions :
        \/ ClickConfirm(s)
        \/ ConfirmInsert(s)
        \/ ConfirmUpdate(s)
        \/ ClickStatus(s, "delivered")
        \/ ClickStatus(s, "cancelled")
        \/ SetStatus(s)

SpecTransit == InitTransit /\ [][NextTransit]_vars

\* ---------------------------------------------------------------------
\* The event log under failing inserts: every step, the scan and the order
\* with the inserts of some event types failing
\* ---------------------------------------------------------------------

\* the log_event calls that open a run, that close it, that report an item
StartEvents ==
    {"step1_start", "step2_start", "step3_start", "step4_start", "step5_start",
     "opportunities_start"}

EndEvents ==
    {"step1_error", "step1_complete", "step2_error", "step2_complete", "step3_error",
     "step3_complete", "step4_complete", "step5_complete", "opportunities_error",
     "opportunities_complete"}

ItemEvents == {"step5_add", "opportunity_found", "opportunity_order"}

FaultSets ==
    {UNION classes : classes \in SUBSET {StartEvents, EndEvents, ItemEvents}}

LogScenario(feed, view, normalized, catalog, stock, prices, mapping, live) ==
    [feed |-> feed, view |-> view, normalized |-> normalized, catalog |-> catalog,
     stock |-> stock, prices |-> prices, mapping |-> mapping, live |-> live]

\* what the runs find: a feed for step 1; a supplier catalog for step 2 and
\* an artcode row of an earlier catalog; SKUs and artcodes for step 3 and the
\* mappings of an earlier run; stores for steps 4 and 5, the scan and the
\* order
LogScenarios ==
    {LogScenario(<<Product(A1, Quantity(3), Price(10000)),
                   Product(A2, Quantity(1), BadPrice)>>,
                 <<>>, {}, <<>>, <<>>, <<>>, {}, <<>>),
     LogScenario(<<>>, <<>>, {[foneday_sku |-> "F1", artcode |-> <<"X">>]},
                 <<[sku |-> "F1", artcode |-> Text(EncodeArray(<<A1, A2>>)),
                    price_ok |-> TRUE]>>,
                 <<>>, <<>>, {}, <<>>),
     LogScenario(<<>>, CatalogView(2), NormalizedRows("both", 2), <<>>,
                 <<>>, <<>>, StaleMappings, <<>>),
     LogScenario(<<>>, <<>>, {}, <<>>,
                 [sku \in MySkus |-> IF sku = A1 THEN 0 ELSE 1],
                 [sku \in MySkus |-> 10000],
                 {Mapping(A1, A1, "F1"), Mapping(A2, A2, "F2")},
                 [f \in FonedaySkus |-> Live("Y", 1000)])}

InitLog ==
    /\ DefaultConfig
    /\ NoLogYet
    /\ log_faults \in FaultSets
    /\ IdleSessions
    /\ IdleProfit
    /\ IdleNormalizer
    /\ \E scenario \in LogScenarios :
          /\ woo_feed = scenario.feed
          /\ v_product_sku = scenario.view
          /\ claude_foneday_artcodes_normalized = scenario.normalized
          /\ foneday_catalog = scenario.catalog
          /\ claude_woo_stock = scenario.stock
          /\ claude_woo_prices = scenario.prices
          /\ claude_sku_artcode_mapping = scenario.mapping
          /\ foneday_live = scenario.live
    /\ claude_foneday_products = {}
    /\ NoImportYet
    /\ claude_foneday_inventory = {}
    /\ claude_foneday_cart = <<>>
    /\ claude_foneday_orders_pending = <<>>
    /\ NoStep4Yet
    /\ NoStep5Yet
    /\ NoStep3Yet
    /\ NoStep1Yet
    /\ NoRunYet
    /\ IdleScan

\* a behaviour follows the runs that have input in its scenario; the
\* confirmation of a cart row, which logs nothing, is followed where no
\* insert into the log fails
NextLog ==
    \/ woo_feed # <<>> /\ step1_import_woocommerce
    \/ foneday_catalog # <<>> /\ step2_import_foneday_all_products
    \/ v_product_sku # <<>> /\ step3_map_sku_to_artcode
    \/ foneday_live # <<>> /\ step4_check_stock_and_prices
    \/ foneday_live # <<>> /\ step5_add_to_cart
    \/ foneday_live # <<>> /\ SearchOpportunities
    \/ foneday_live # <<>> /\ PlaceOrder
    \/ foneday_live # <<>> /\ log_faults = {} /\ ConfirmOrder

SpecLog == InitLog /\ [][NextLog]_vars

(***************************************************************************)
(* Properties of the profitability model (SpecProfit)                      *)
(***************************************************************************)
\* cost_eur * fx * vat * den(threshold) and num(threshold) * sale * den(fx)
\* * den(vat): the two sides of  cost_eur * fx / (sale / vat) < threshold
\* cleared of their denominators (sale > 0; both prices in cents)
RatioSide == pm_cost * EUR_RON_RATE[1] * TVA_RATE[1] * MIN_PROFIT_MARGIN[2]
ThresholdSide == MIN_PROFIT_MARGIN[1] * pm_sale * EUR_RON_RATE[2] * TVA_RATE[2]

\* (1 - min_margin_threshold) * 100
MinMarginPercent ==
    Rat((MIN_PROFIT_MARGIN[2] - MIN_PROFIT_MARGIN[1]) * 100, MIN_PROFIT_MARGIN[2])

C8_MarginMonotone ==
    (pm_done /\ pm_cost < pm_cost2) => RLeq(pm_margin2, pm_margin)

\* two costs were compared and the dearer one has the strictly lower margin
C8_Witness ==
    pm_done /\ pm_cost < pm_cost2 /\ RLess(pm_margin2, pm_margin)

(***************************************************************************)
(* Properties of the catalog normalizer (SpecNorm)                         *)
(***************************************************************************)
IsPlainCode(s) == s # <<>> /\ \A i \in 1..Len(s) : s[i] \in Letters \cup Digits

\* blanks, a double quote, a plain code, a double quote, blanks
IsQuotedCode(s) ==
    LET t == Strip(s, Whitespace)
    IN /\ Len(t) >= 3
       /\ t[1] = DQ
       /\ t[Len(t)] = DQ
       /\ IsPlainCode(SubSeq(t, 2, Len(t) - 1))

QuotedCode(s) == LET t == Strip(s, Whitespace) IN SubSeq(t, 2, Len(t) - 1)

\* C9 as stated: a JSON array of strings gives exactly its elements, a bare
\* scalar text gives that single value, a scalar between blanks and double
\* quotes gives the single value without them, empty text or null gives no
\* rows.
C9_NormalizedShapes ==
    nz_done =>
        /\ \A es \in CodeLists :
               nz_raw = Text(EncodeArray(es)) => Range(nz_values) = Range(es)
        /\ (nz_raw.k = "str" /\ IsPlainCode(nz_raw.v)) => nz_values = <<nz_raw.v>>
        /\ (nz_raw.k = "str" /\ IsQuotedCode(nz_raw.v)) => nz_values = <<QuotedCode(nz_raw.v)>>
        /\ (nz_raw = NoArtcode \/ nz_raw = Text(<<>>)) => nz_values = <<>>

\* the text parses as a JSON array
IsJsonArray(s) == json_loads(s).ok /\ json_loads(s).val.t = "list"

\* the single value of a text taken whole: trimmed, then cleaned as every
\* value is (line 464)
WholeText(s) == artcode_clean(Str(Strip(s, Whitespace)))

\* C29 as stated: a text artcode that is not a JSON array, valid JSON of
\* another kind (a number, a string) included, gives exactly one row, whose
\* value is the whole trimmed text.
C29_NonArrayTextWhole ==
    (/\ nz_done
     /\ nz_raw.k = "str"
     /\ ~IsJsonArray(nz_raw.v)
     /\ WholeText(nz_raw.v) # <<>>)
        => nz_values = <<WholeText(nz_raw.v)>>

(***************************************************************************)
(* Properties of the catalog import (SpecImport)                           *)
(***************************************************************************)
\* C10: a run of step 2 that follows another run on the same catalog,
\* neither with a failure, leaves the set of NormalizedArtcode rows equal to
\* the set after the first run (the same raw artcode normalizes to the same
\* values both times).
C10_ImportIdempotent ==
    s2_repeat => claude_foneday_artcodes_normalized = s2_before

\* the same catalog was imported twice and its normalized rows are stored
C10_Witness ==
    /\ s2_repeat
    /\ Cardinality(claude_foneday_artcodes_normalized) >= 3
    /\ \E r \in claude_foneday_artcodes_normalized : r.artcode = A2

(***************************************************************************)
(* Properties of the restock pipeline (Spec)                               *)
(***************************************************************************)
HasPendingOrder(sku) ==
    \E i \in 1..Len(claude_foneday_orders_pending) :
        /\ claude_foneday_orders_pending[i].sku = sku
        /\ claude_foneday_orders_pending[i].status = "pending"

\* cost_eur * fx / (sale_price / vat) < threshold, cleared of denominators
\* (sale_price > 0, both prices in cents)
CostRatioBelowThreshold(cost_eur, sale_price) ==
    cost_eur * EUR_RON_RATE[1] * TVA_RATE[1] * MIN_PROFIT_MARGIN[2]
        < MIN_PROFIT_MARGIN[1] * sale_price * EUR_RON_RATE[2] * TVA_RATE[2]

\* the cart-add calls of the last step 5 run for one pair
CallsFor(sku, foneday_sku) ==
    {i \in 1..Len(s5_calls) :
        s5_calls[i].sku = sku /\ s5_calls[i].foneday_sku = foneday_sku}

\* the cart rows the last step 5 run appended for one pair
AppendedFor(sku, foneday_sku) ==
    {i \in (s5_cart_before + 1)..Len(claude_foneday_cart) :
        /\ claude_foneday_cart[i].sku = sku
        /\ claude_foneday_cart[i].foneday_sku = foneday_sku}

\* C1: in a run of step 4, no supplier query is issued for a mapping of a sku
\* with stock_quantity <= 0 that has a PendingOrder with status "pending"
\* when the run starts (step 4 changes neither table).
C1_PendingNotQueried ==
    s4_ran =>
        \A q \in s4_queries :
            ~(claude_woo_stock[q[1]] <= 0 /\ HasPendingOrder(q[1]))

\* a complete run of step 4 over a zero-stock sku that has a pending order
\* and a mapping to a supplier sku
C1_Witness ==
    /\ s4_ran
    /\ ~s5_ran
    /\ s4_clean
    /\ \E m \in claude_sku_artcode_mapping :
          /\ m.foneday_sku # NoSku
          /\ claude_woo_stock[m.my_sku] <= 0
          /\ HasPendingOrder(m.my_sku)

\* the sku has PendingOrders and each of them is delivered or cancelled
AllOrdersClosed(sku) ==
    /\ \E i \in 1..Len(claude_foneday_orders_pending) :
          claude_foneday_orders_pending[i].sku = sku
    /\ \A i \in 1..Len(claude_foneday_orders_pending) :
          claude_foneday_orders_pending[i].sku = sku =>
              claude_foneday_orders_pending[i].status \in {"delivered", "cancelled"}

\* C34: only the orders with status "pending" keep a sku out of step 4: a
\* run of step 4 whose loop gets through the zero-stock products queries the
\* supplier for every mapping with a foneday_sku of a zero-stock sku whose
\* PendingOrders are all delivered or cancelled
C34_ClosedOrdersQueried ==
    (s4_ran /\ s4_all) =>
        \A m \in claude_sku_artcode_mapping :
            (/\ m.foneday_sku # NoSku
             /\ m.my_sku \in DOMAIN claude_woo_stock
             /\ claude_woo_stock[m.my_sku] <= 0
             /\ AllOrdersClosed(m.my_sku)) =>
                <<m.my_sku, m.foneday_sku>> \in s4_queries

\* a run of step 4 that queried the supplier for a zero-stock sku whose
\* order had been delivered or cancelled
C34_Witness ==
    /\ s4_ran
    /\ s4_all
    /\ \E m \in claude_sku_artcode_mapping :
          /\ m.foneday_sku # NoSku
          /\ claude_woo_stock[m.my_sku] <= 0
          /\ AllOrdersClosed(m.my_sku)
          /\ <<m.my_sku, m.foneday_sku>> \in s4_queries

\* C2: step 5 never issues a cart-add for a sku that has a PendingOrder with
\* status "pending" when the run starts (step 5 does not change that table).
C2_PendingNotCarted ==
    s5_ran => \A i \in 1..Len(s5_calls) : ~HasPendingOrder(s5_calls[i].sku)

\* the case of C3: stock 0, no pending order, exactly one mapping, which is to
\* foneday_sku, the supplier reporting it in stock, a storefront price
C3_Case(sku, foneday_sku) ==
    /\ claude_woo_stock[sku] = 0
    /\ ~HasPendingOrder(sku)
    /\ \E m \in claude_sku_artcode_mapping :
          /\ m.foneday_sku = foneday_sku
          /\ mapping_result(claude_sku_artcode_mapping, sku) = {m}
    /\ foneday_live[foneday_sku].instock = "Y"
    /\ sku \in DOMAIN claude_woo_prices
    /\ claude_woo_prices[sku] > 0
    /\ CostRatioBelowThreshold(foneday_live[foneday_sku].price, claude_woo_prices[sku])

\* exactly one cart-add call, of quantity 2, and exactly one appended cart
\* row, with status "added_to_cart" and quantity 2
C3_Outcome(sku, foneday_sku) ==
    /\ Cardinality(CallsFor(sku, foneday_sku)) = 1
    /\ \A i \in CallsFor(sku, foneday_sku) : s5_calls[i].quantity = 2
    /\ Cardinality(AppendedFor(sku, foneday_sku)) = 1
    /\ \A i \in AppendedFor(sku, foneday_sku) :
          /\ claude_foneday_cart[i].status = "added_to_cart"
          /\ claude_foneday_cart[i].quantity = 2

\* a run of step 4 followed by a run of step 5, neither with a failure
C3_Runs == s4_ran /\ s4_clean /\ s5_ran /\ s5_clean

\* C3 as stated: for a sku with stock 0, no pending order, one mapping to a
\* supplier sku reported in stock and prices whose cost ratio is below the
\* threshold, step 4 then step 5 issue exactly one cart-add of quantity 2 and
\* append exactly one CartEntry "added_to_cart" of quantity 2.
C3_Original ==
    C3_Runs =>
        \A sku \in MySkus, foneday_sku \in FonedaySkus :
            C3_Case(sku, foneday_sku) => C3_Outcome(sku, foneday_sku)

\* C3 amended: the same, for a supplier price greater than 0.
C3_EndToEnd ==
    C3_Runs =>
        \A sku \in MySkus, foneday_sku \in FonedaySkus :
            (C3_Case(sku, foneday_sku) /\ foneday_live[foneday_sku].price > 0)
                => C3_Outcome(sku, foneday_sku)

\* step 4 then step 5 ran over such a sku
C3_Witness ==
    /\ C3_Runs
    /\ \E sku \in MySkus, foneday_sku \in FonedaySkus :
          /\ C3_Case(sku, foneday_sku)
          /\ foneday_live[foneday_sku].price > 0
          /\ Cardinality(AppendedFor(sku, foneday_sku)) = 1

\* the in-stock snapshots with a storefront price, both prices positive
Candidates ==
    {r \in claude_foneday_inventory :
        /\ r.instock
        /\ r.sku \in DOMAIN claude_woo_prices
        /\ claude_woo_prices[r.sku] > 0
        /\ r.price_eur > 0}

\* C4: for every in-stock snapshot that step 5 evaluates with positive
\* prices, step 5 appends a CartEntry, "added_to_cart" when the candidate is
\* accepted and "not_profitable" when it is rejected (a run without failure).
C4_EveryCandidateRecorded ==
    (s5_ran /\ s5_clean) =>
        \A r \in Candidates :
            \E i \in AppendedFor(r.sku, r.foneday_sku) :
                claude_foneday_cart[i].status =
                    IF CostRatioBelowThreshold(r.price_eur, claude_woo_prices[r.sku])
                    THEN "added_to_cart" ELSE "not_profitable"

\* C5: every cart-add call of a step 5 run is for a snapshot whose supplier
\* price and storefront price have a cost ratio below the threshold.
C5_CallsOnlyProfitable ==
    s5_ran =>
        \A i \in 1..Len(s5_calls) :
            \E r \in Candidates :
                /\ r.sku = s5_calls[i].sku
                /\ r.foneday_sku = s5_calls[i].foneday_sku
                /\ CostRatioBelowThreshold(r.price_eur, claude_woo_prices[r.sku])

\* a complete run of step 5 over an accepted and a rejected candidate: a call
\* for the first, none for the second
C5_Witness ==
    /\ s5_ran
    /\ s5_clean
    /\ Len(s5_calls) = 1
    /\ \E r \in Candidates :
          /\ ~CostRatioBelowThreshold(r.price_eur, claude_woo_prices[r.sku])
          /\ CallsFor(r.sku, r.foneday_sku) = {}

(***************************************************************************)
(* Properties of the identifier mapper (SpecMap)                           *)
(***************************************************************************)
MappingsOf(my_sku) == {m \in claude_sku_artcode_mapping : m.my_sku = my_sku}

\* the supplier skus of the normalized rows read in the run whose artcode is
\* the sku
MatchesRead(sku) == {r.foneday_sku : r \in {q \in Range(s3_artcodes) : q.artcode = sku}}

PrimarySkusRead == {s3_skus[i].sku : i \in 1..Len(s3_skus)}

RowsOfChunks(chunks) == UNION {Range(ChunkOf(s3_batch, c)) : c \in chunks}

\* C11: after a run of step 3 without a failure, a primary sku that matches
\* the normalized rows of the two supplier skus F1 and F2 has exactly two
\* rows in the mapping table, one with foneday_sku F1 and one with F2.
C11_TwoMappingsKept ==
    (s3_ran /\ s3_batch # <<>> /\ s3_fails = {}) =>
        \A sku \in PrimarySkusRead :
            MatchesRead(sku) = {"F1", "F2"} =>
                /\ Cardinality(MappingsOf(sku)) = 2
                /\ {m.foneday_sku : m \in MappingsOf(sku)} = {"F1", "F2"}

\* a written row is sound: its my_sku is a primary sku of the catalog view,
\* its foneday_artcode is its my_sku and (foneday_sku, foneday_artcode) is a
\* normalized row read in the run
SoundMapping(row) ==
    /\ \E j \in 1..Len(v_product_sku) :
          v_product_sku[j].sku = row.my_sku /\ v_product_sku[j].is_primary
    /\ row.foneday_artcode = row.my_sku
    /\ [foneday_sku |-> row.foneday_sku, artcode |-> row.foneday_artcode]
           \in Range(s3_artcodes)

\* every primary sku with a matching normalized row has a row in a chunk the
\* run submitted
EveryMatchSubmitted ==
    \A i \in 1..Len(v_product_sku) :
        (v_product_sku[i].is_primary /\ MatchesRead(v_product_sku[i].sku) # {}) =>
            \E row \in RowsOfChunks(s3_submitted) : row.my_sku = v_product_sku[i].sku

\* C12 as stated: every row the mapper writes is sound, and every primary sku
\* with at least one matching normalized row gets a row submitted for write.
C12_Original ==
    s3_ran =>
        /\ \A row \in RowsOfChunks(s3_written) : SoundMapping(row)
        /\ EveryMatchSubmitted

\* C12 amended: every row the mapper writes is sound; and in a run in which
\* at most five chunk upserts fail, every primary sku with at least one
\* matching normalized row gets a row submitted for write.
C12_SoundAndComplete ==
    s3_ran =>
        /\ \A row \in RowsOfChunks(s3_written) : SoundMapping(row)
        /\ Cardinality(s3_fails) <= 5 => EveryMatchSubmitted

\* a run that wrote rows, over a catalog whose secondary sku matches a
\* normalized row as well, with a failed chunk
C12_Witness ==
    /\ s3_ran
    /\ s3_written # {}
    /\ s3_fails # {}
    /\ \E i \in 1..Len(v_product_sku) :
          ~v_product_sku[i].is_primary /\ MatchesRead(v_product_sku[i].sku) # {}
    /\ EveryMatchSubmitted

\* the rows of a written chunk are in the table (under their key: a later
\* chunk may have refreshed the row)
ChunkInTable(c) ==
    /\ c \in s3_written
    /\ \A row \in Range(ChunkOf(s3_batch, c)) :
          \E t \in claude_sku_artcode_mapping :
              t.my_sku = row.my_sku /\ t.foneday_artcode = row.foneday_artcode

\* C13 as stated: for any set of failing chunks, every chunk that does not
\* itself fail is written to the mapping table.
C13_Original ==
    s3_ran =>
        \A c \in 1..NumChunks(s3_batch) : c \notin s3_fails => ChunkInTable(c)

\* C13 amended: for any set of failing chunks, every chunk that does not itself
\* fail and has at most five failing chunks before it is written to the
\* mapping table (the mapper stops at the sixth failure).
C13_ChunksContinue ==
    s3_ran =>
        \A c \in 1..NumChunks(s3_batch) :
            (c \notin s3_fails /\ Cardinality(s3_fails \cap (1..c)) <= 5)
                => ChunkInTable(c)

\* a run in which a chunk failed and a later chunk was written
C13_Witness ==
    /\ s3_ran
    /\ \E c \in s3_fails, d \in s3_written : c < d /\ ChunkInTable(d)

(***************************************************************************)
(* Properties of the stock synchronizer (SpecSync)                         *)
(***************************************************************************)
\* the quantity and the price in cents a feed product carries (null and the
\* empty text as 0)
FeedStock(product) == IF product.stock_quantity.null THEN 0 ELSE product.stock_quantity.v
FeedPrice(product) == IF product.regular_price.k = "num" THEN product.regular_price.v ELSE 0

StockDiffers(product) ==
    /\ product.sku \in DOMAIN s1_existing_products
    /\ s1_existing_products[product.sku] # FeedStock(product)

PriceDiffers(product) ==
    /\ product.sku \in DOMAIN s1_existing_prices
    /\ s1_existing_prices[product.sku] # FeedPrice(product)

\* the class and the queued writes of the i-th product of the feed agree
\* with the snapshot loaded at the start of the run
ClassifiedRight(i) ==
    LET product == woo_feed[i]
        c == s1_classes[i]
    IN /\ c.class \in {"new", "changed", "unchanged", "errored"}
       /\ c.class = "new" =>
              /\ product.sku \notin DOMAIN s1_existing_products
              /\ c.inserts = {"stock", "price"}
              /\ c.updates = {}
       /\ c.class = "changed" =>
              /\ product.sku \in DOMAIN s1_existing_products
              /\ StockDiffers(product) \/ PriceDiffers(product)
              /\ c.inserts = {}
              /\ "stock" \in c.updates <=> StockDiffers(product)
              /\ "price" \in c.updates <=> PriceDiffers(product)
       /\ c.class = "unchanged" =>
              /\ product.sku \in DOMAIN s1_existing_products
              /\ ~StockDiffers(product)
              /\ ~PriceDiffers(product)
              /\ c.inserts = {}
              /\ c.updates = {}
       /\ c.class = "errored" => (c.inserts = {} /\ c.updates = {})

\* C14: step 1 puts every feed product with a non-empty sku in exactly one of
\* the classes new (no record in the snapshot: an insert queued for stock and
\* for price), changed (stock or price differs from the snapshot: an update
\* queued for the changed field only), unchanged (nothing queued) and
\* errored, and the four tallies add up to the number of such products
\* processed.
C14_Classified ==
    s1_ran =>
        /\ \A i \in 1..Len(s1_classes) :
               IF woo_feed[i].sku = <<>> THEN s1_classes[i].class = "skipped"
               ELSE ClassifiedRight(i)
        /\ s1_tallies.total_new + s1_tallies.total_updated
               + s1_tallies.total_unchanged + s1_tallies.total_errors
             = Cardinality({i \in 1..Len(s1_classes) : woo_feed[i].sku # <<>>})

\* a run over a new, a changed and an errored product
C14_Witness ==
    /\ s1_ran
    /\ s1_tallies.total_new = 1
    /\ s1_tallies.total_updated = 1
    /\ s1_tallies.total_errors = 1

\* a run over an unchanged product and a product without a sku
C14_WitnessUnchanged ==
    /\ s1_ran
    /\ s1_tallies.total_unchanged >= 1
    /\ \E i \in 1..Len(s1_classes) : s1_classes[i].class = "skipped"

\* the last product of the feed with the sku
LastOccurrence(sku) ==
    woo_feed[CHOOSE i \in 1..Len(woo_feed) :
                /\ woo_feed[i].sku = sku
                /\ \A j \in (i + 1)..Len(woo_feed) : woo_feed[j].sku # sku]

\* the skus of the feed whose every price is a number or empty
FeedSkus ==
    {woo_feed[i].sku : i \in 1..Len(woo_feed)}
        \ ({<<>>} \cup {woo_feed[i].sku : i \in {j \in 1..Len(woo_feed) :
                                                  woo_feed[j].regular_price.k = "bad"}})

\* C15: after a run of step 1 in which no read and no write fails, every sku
\* of the feed has a StockRecord and a PriceRecord that hold the quantity
\* (null as 0) and the price of its last occurrence in the feed.
C15_StoreMirrorsFeed ==
    (s1_ran /\ s1_clean) =>
        \A sku \in FeedSkus :
            /\ sku \in DOMAIN claude_woo_stock
            /\ sku \in DOMAIN claude_woo_prices
            /\ claude_woo_stock[sku] = FeedStock(LastOccurrence(sku))
            /\ claude_woo_prices[sku] = FeedPrice(LastOccurrence(sku))

\* C16: a write of a flush that raises does not end the run: after a failed
\* write of the flush at page p the synchronizer requests page p + 1 (and the
\* tallies it returns count every product of the pages it got).
C16_FlushFailureContinues ==
    s1_ran =>
        /\ \A w \in s1_raised : w.flush # 0 => s1_pages >= w.flush + 1
        /\ Len(s1_classes) >= Min(s1_pages - 1, Len(woo_feed)) * per_page

\* a run in which a write of the flush at page 2 raised and the product of
\* page 3 was processed
C16_Witness ==
    /\ s1_ran
    /\ \E w \in s1_raised :
          /\ w.flush # 0
          /\ s1_pages > w.flush
          /\ Len(s1_classes) > w.flush * per_page

\* C30 as stated: a page of the storefront feed that answers with a
\* timeout or a status other than 2xx is taken as no data and the run goes
\* on with the next page: every page of the feed is requested, and every
\* product of the pages that answered is classified.  A run meets at most one
\* failing page.
C30_FailedPageSkipped ==
    s1_ran =>
        /\ s1_pages >= NumPages(woo_feed)
        /\ Len(s1_classes) >= Len(woo_feed) - per_page

\* the page of the product that the latest run of step 1 processed i-th
PageOfClass(i) == ((i - 1) \div per_page) + 1

\* the products of the latest run that were new, by position
NewAt == {i \in 1..Len(s1_classes) : s1_classes[i].class = "new"}

\* the product at i is the only new product of its sku in the run
OnlyNew(i) == \A j \in NewAt : s1_classes[j].sku = s1_classes[i].sku => j = i

\* the store failed no insert of the kind after the flush of w
NoLaterFault(w) ==
    \A v \in s1_fails : v.kind = w.kind => (v.flush # 0 /\ v.flush <= w.flush)

\* C31 as stated: a failed insert batch affects only its own rows: after the
\* insert of the new-stock or new-price batch failed at the flush of page p,
\* the new rows queued from the pages after p are inserted at a later flush
\* of the run (the store failing no later insert, each row the only new row
\* of its sku).
C31_FailedInsertOwnRows ==
    s1_ran =>
        \A w \in s1_raised :
            (w.flush # 0 /\ w.kind \in {"new_stock", "new_price"} /\ NoLaterFault(w)) =>
                \A i \in NewAt :
                    (PageOfClass(i) > w.flush /\ OnlyNew(i)) =>
                        s1_classes[i].sku \in
                            DOMAIN (IF w.kind = "new_stock" THEN claude_woo_stock
                                    ELSE claude_woo_prices)

\* in the latest run of step 1 the insert of the StockRecord of the new
\* product at i succeeded and the insert of its PriceRecord failed
HalfInserted(i) ==
    /\ s1_ran
    /\ s1_classes[i].class = "new"
    /\ \A w \in s1_raised : w.kind # "new_stock"
    /\ \E w \in s1_raised : w.kind = "new_price"
    /\ s1_classes[i].sku \in DOMAIN claude_woo_stock
    /\ s1_classes[i].sku \notin DOMAIN claude_woo_prices

\* C32 as stated: a run of step 1 that inserted the StockRecord of a new
\* sku and failed to insert its PriceRecord is repaired by the next run over
\* the same feed that meets no failure: that run leaves a PriceRecord of the
\* sku.
C32_RerunRepairs ==
    [][\A i \in 1..Len(s1_classes) :
           (HalfInserted(i) /\ s1_clean') =>
               s1_classes[i].sku \in DOMAIN claude_woo_prices']_vars

\* the latest run of step 1 attempted the write of the kind at a flush that
\* follows page p: the flush of a later 5th page or the last one
AttemptedAfter(kind, p) ==
    \E w \in s1_attempts : w.kind = kind /\ (w.flush = 0 \/ w.flush >= p)

InsertKind(t) == IF t = "stock" THEN "new_stock" ELSE "new_price"
UpdateKind(t) == IF t = "stock" THEN "update_stock" ELSE "update_price"

\* C33: step 1 flushes at every flush_pages-th page and once more at the
\* end: however the page loop ends, every insert and every update a product
\* queued has been attempted by the time the run returns
C33_QueuedAttempted ==
    s1_ran =>
        /\ \A w \in s1_attempts : w.flush % flush_pages = 0
        /\ \A i \in 1..Len(s1_classes) :
               /\ \A t \in s1_classes[i].inserts :
                      AttemptedAfter(InsertKind(t), PageOfClass(i))
               /\ \A t \in s1_classes[i].updates :
                      AttemptedAfter(UpdateKind(t), PageOfClass(i))

\* a run whose page loop ended at a page the storefront failed, after a
\* product queued rows that no flush of the loop had taken: the last flush
\* attempted them
C33_Witness ==
    /\ s1_ran
    /\ s1_pages <= NumPages(woo_feed)
    /\ \E i \in 1..Len(s1_classes) :
          /\ PageOfClass(i) % flush_pages # 0
          /\ \/ /\ s1_classes[i].inserts # {}
                /\ Write(0, "new_stock") \in s1_attempts
             \/ /\ "stock" \in s1_classes[i].updates
                /\ Write(0, "update_stock") \in s1_attempts

\* ---------------------------------------------------------------------
\* Step 4: the snapshots of a run
\* ---------------------------------------------------------------------

\* the live query of pair q in the latest run of step 4 returned a product
\* whose instock field is "Y"
ReturnedInStock(q) ==
    /\ s4_outcome[q] # "query_failed"
    /\ foneday_live[q[2]].instock = "Y"

\* the snapshot step 4 builds for pair q from the live record
SnapshotOf(q) ==
    [sku |-> q[1], foneday_sku |-> q[2],
     price_eur |-> foneday_live[q[2]].price, instock |-> TRUE]

\* C17: in a run of step 4 a snapshot for (sku, foneday_sku) is submitted
\* exactly when the live query of that mapping returned a product whose
\* instock field is "Y"; the row carries instock = TRUE and the live price,
\* it is stored unless the store rejects it, and no stored row has
\* instock = FALSE
C17_SnapshotIffInStock ==
    /\ \A r \in claude_foneday_inventory : r.instock = TRUE
    /\ s4_ran =>
        /\ s4_upserts = {SnapshotOf(q) : q \in {x \in s4_queries : ReturnedInStock(x)}}
        /\ \A q \in s4_queries :
              ReturnedInStock(q) /\ s4_outcome[q] = "ok"
                  => SnapshotOf(q) \in claude_foneday_inventory

\* a run of step 4 in which one query returned an in-stock product, whose
\* snapshot is stored, and another returned a product that is not in stock
C17_Witness ==
    /\ s4_ran
    /\ \E q \in s4_queries :
          /\ ReturnedInStock(q)
          /\ SnapshotOf(q) \in claude_foneday_inventory
    /\ \E q \in s4_queries :
          /\ s4_outcome[q] = "ok"
          /\ foneday_live[q[2]].instock = "N"
          /\ \A r \in claude_foneday_inventory :
                ~(r.sku = q[1] /\ r.foneday_sku = q[2])

\* C18: in a run of step 4 whose store reads succeed, every mapping with a
\* supplier SKU of every zero-stock SKU without a pending order is queried,
\* whichever of the queries fail; a failed query submits no snapshot
C18_FailedQueryContinues ==
    s4_ran /\ s4_all =>
        /\ s4_queries = step4_pairs(zero_stock_products(claude_woo_stock),
                                    pending_skus(claude_foneday_orders_pending),
                                    claude_sku_artcode_mapping)
        /\ \A q \in s4_queries :
              s4_outcome[q] = "query_failed" =>
                  \A r \in s4_upserts : ~(r.sku = q[1] /\ r.foneday_sku = q[2])

\* the pairs of the latest run of step 4 in the order the loop took them
QueryOrder == TableSeq(DOMAIN s4_outcome)

\* a run of step 4 in which the query of one mapping failed and the mapping
\* of a later SKU was still queried
C18_Witness ==
    /\ s4_ran
    /\ s4_all
    /\ \E i, j \in 1..Len(QueryOrder) :
          /\ i < j
          /\ s4_outcome[QueryOrder[i]] = "query_failed"
          /\ QueryOrder[j] \in s4_queries
          /\ QueryOrder[j][1] # QueryOrder[i][1]
          /\ s4_outcome[QueryOrder[j]] = "ok"

\* a run of step 4 in which the query of one mapping failed and a later
\* mapping of the same SKU was still queried
C18_WitnessSameSku ==
    /\ s4_ran
    /\ s4_all
    /\ \E i, j \in 1..Len(QueryOrder) :
          /\ i < j
          /\ s4_outcome[QueryOrder[i]] = "query_failed"
          /\ QueryOrder[j] \in s4_queries
          /\ QueryOrder[j][1] = QueryOrder[i][1]

\* ---------------------------------------------------------------------
\* Pacing of the supplier calls and the tally of lost cart rows
\* ---------------------------------------------------------------------

\* C19: in the latest run of step 4, step 5, the opportunity scan or the
\* operator's order, a sleep lies between any two consecutive supplier
\* calls: no two calls are back to back
C19_Paced ==
    \A i \in 1..(Len(api_trace) - 1) :
        ~(api_trace[i] = "call" /\ api_trace[i + 1] = "call")

\* C20: in the latest run of a commit entry point (step 5, the operator's
\* order) every cart-add that succeeded and whose CartEntry insert raised is
\* counted in the error tally of the run
C20_InsertFailureCounted == commit_lost <= commit_errors

\* ---------------------------------------------------------------------
\* Step 5 and the cart table
\* ---------------------------------------------------------------------

\* a run of step 5 that starts with no row in the cart table
EmptyCartRun ==
    [cart |-> <<>>, calls |-> <<>>, trace |-> <<>>, evaluated |-> {},
     added_to_cart |-> 0, not_profitable |-> 0, lost |-> 0]

\* the cart-add calls of a run of step 5 without failure over the snapshots
\* and prices of the store, started from an empty cart table
CallsFromEmptyCart ==
    {step5_loop(order, claude_woo_prices, [i \in 1..Len(order) |-> "ok"],
                EmptyCartRun).calls :
        order \in Perms(inventory_result(claude_foneday_inventory))}

Qualifies(o, min_profit_percent) ==
    /\ o.sku \in DOMAIN claude_woo_stock
    /\ claude_woo_stock[o.sku] > 0
    /\ o.current_stock = claude_woo_stock[o.sku]
    /\ o.sku \in DOMAIN claude_woo_prices
    /\ claude_woo_prices[o.sku] > 0
    /\ o.woo_price_ron = claude_woo_prices[o.sku]
    /\ o.foneday_sku \in DOMAIN foneday_live
    /\ foneday_live[o.foneday_sku].instock = "Y"
    /\ foneday_live[o.foneday_sku].price > 0
    /\ o.foneday_price_eur = foneday_live[o.foneday_sku].price
    /\ o.profit_margin = calculate_profit_margin(o.foneday_price_eur, o.woo_price_ron)
    /\ RLeq(Rat(min_profit_percent, 1), o.profit_margin)

\* every candidate of the latest scan qualifies
ScanResultQualifies ==
    scan_ran => \A i \in 1..Len(scan_result) : Qualifies(scan_result[i], scan_min_profit)

\* a step of the scan
ScanStep == ~scan_ran /\ scan_ran'

\* C22: every candidate find_high_profit_opportunities returns has stock
\* above 0, a storefront price above 0, a live supplier record in stock at a
\* price above 0 and a margin of at least min_profit_percent; the scan
\* issues no cart-add call and writes no CartEntry
C22_ScanSurfacesOnly ==
    /\ []ScanResultQualifies
    /\ [][ScanStep => /\ claude_foneday_cart' = claude_foneday_cart
                      /\ order_calls' = <<>>]_vars

\* a scan that returned a candidate and passed over a SKU without stock
C22_Witness ==
    /\ scan_ran
    /\ scan_result # <<>>
    /\ \E m \in claude_sku_artcode_mapping :
          /\ m.my_sku \in DOMAIN claude_woo_stock
          /\ claude_woo_stock[m.my_sku] <= 0
          /\ m.foneday_sku \in DOMAIN foneday_live
          /\ foneday_live[m.foneday_sku].instock = "Y"

\* ---------------------------------------------------------------------
\* The operator's order
\* ---------------------------------------------------------------------

\* the opportunities of the latest order with a quantity above 0
Ordered == {i \in 1..Len(order_quantities) : order_quantities[i] > 0}

\* the place of opportunity i among the ordered ones
OrderRank(i) == Cardinality({j \in Ordered : j <= i})

\* one call for every ordered opportunity, with its quantity, and none for
\* a quantity of 0
OneCallEach ==
    /\ Len(order_quantities) = Len(opportunities)
    /\ Len(order_calls) = Cardinality(Ordered)
    /\ \A i \in Ordered :
          LET call == order_calls[OrderRank(i)]
          IN /\ call.sku = opportunities[i].sku
             /\ call.foneday_sku = opportunities[i].foneday_sku
             /\ call.quantity = order_quantities[i]

\* the rows the latest order appended are, in order, one "added_to_cart"
\* row for every call in stored, with the quantity of the call
AppendedAre(stored) ==
    /\ Len(claude_foneday_cart) - order_cart_before = Cardinality(stored)
    /\ \A k \in stored :
          LET entry == claude_foneday_cart[order_cart_before
                                           + Cardinality({j \in stored : j <= k})]
          IN /\ entry.sku = order_calls[k].sku
             /\ entry.foneday_sku = order_calls[k].foneday_sku
             /\ entry.quantity = order_calls[k].quantity
             /\ entry.status = "added_to_cart"

\* C23 as stated: a quantity of 0 causes no call, a quantity q above 0
\* exactly one cart-add call with quantity q; a CartEntry "added_to_cart"
\* with quantity q is appended exactly when the call succeeds
C23_Original ==
    order_ran =>
        /\ OneCallEach
        /\ AppendedAre({k \in 1..Len(order_calls) : order_calls[k].ok})

\* C23 amended: the same, the CartEntry being appended exactly when the call
\* succeeds and the insert does not raise
C23_OneCallOneEntry ==
    order_ran =>
        /\ OneCallEach
        /\ AppendedAre({k \in 1..Len(order_calls) :
                           order_calls[k].ok /\ order_outcomes[k] # "insert_failed"})

\* an order with a quantity of 0, a call that succeeded and one that failed
C23_Witness ==
    /\ order_ran
    /\ \E i \in 1..Len(order_quantities) : order_quantities[i] = 0
    /\ \E k \in 1..Len(order_calls) : order_calls[k].ok /\ order_outcomes[k] = "ok"
    /\ \E k \in 1..Len(order_calls) : ~order_calls[k].ok
    /\ Len(claude_foneday_cart) = order_cart_before + 1

\* ---------------------------------------------------------------------
\* Orders in transit and cart rows under two operator sessions
\* ---------------------------------------------------------------------

Terminal(status) == status \in {"delivered", "cancelled"}

\* C24: the status of a PendingOrder is one-way: once it is "delivered" or
\* "cancelled" no deliver or cancel action of any session changes it
C24_TerminalStays ==
    [][\A id \in 1..Len(claude_foneday_orders_pending) :
          Terminal(claude_foneday_orders_pending[id].status)
              => claude_foneday_orders_pending'[id].status
                     = claude_foneday_orders_pending[id].status]_vars

\* the orders created from cart row id
OrdersFrom(id) ==
    {k \in 1..Len(claude_foneday_orders_pending) :
        claude_foneday_orders_pending[k].order_date = id}

\* C25: over any sequence of confirm actions, no CartEntry has more than one
\* PendingOrder created from it
C25_OneOrderPerEntry ==
    \A id \in 1..Len(claude_foneday_cart) : Cardinality(OrdersFrom(id)) <= 1

\* the row is as it was, or it went from "added_to_cart" to "confirmed" with
\* every other field as it was
SameOrConfirmed(before, after) ==
    \/ after = before
    \/ /\ before.status = "added_to_cart"
       /\ after = [before EXCEPT !.status = "confirmed"]

\* C26: no step removes a CartEntry or changes one otherwise than from
\* "added_to_cart" to "confirmed"; a confirmed entry stays confirmed and off
\* the list of entries to confirm
C26_CartStatusOneWay ==
    [][/\ Len(claude_foneday_cart') >= Len(claude_foneday_cart)
       /\ \A id \in 1..Len(claude_foneday_cart) :
             /\ SameOrConfirmed(claude_foneday_cart[id], claude_foneday_cart'[id])
             /\ claude_foneday_cart[id].status = "confirmed"
                   => \A idx \in 1..Len(cart_to_confirm(claude_foneday_cart')) :
                         cart_to_confirm(claude_foneday_cart')[idx] # id]_vars

\* a cart row two sessions went to confirm: it is confirmed, two orders were
\* created from it, and the update of the second session is still to come
C26_Witness ==
    \E id \in 1..Len(claude_foneday_cart), s \in Sessions :
        /\ claude_foneday_cart[id].status = "confirmed"
        /\ Cardinality(OrdersFrom(id)) = 2
        /\ session_pc[s] = "confirm_update"
        /\ session_row[s] = id

\* ---------------------------------------------------------------------
\* The prices the profitability functions are called with
\* ---------------------------------------------------------------------

\* an in-stock snapshot step 5 has no positive pair of prices for
Unpriced(r) ==
    \/ r.sku \notin DOMAIN claude_woo_prices
    \/ claude_woo_prices[r.sku] <= 0
    \/ r.price_eur <= 0

\* C27: step 5 and the opportunity scan never pass a price of 0 or less to
\* is_profitable or calculate_profit_margin; step 5 issues no call and
\* appends no CartEntry for a snapshot whose SKU has no PriceRecord or one
\* of whose prices is 0 or less
C27_PositivePricesOnly ==
    /\ \A a \in profit_args : a[1] > 0 /\ a[2] > 0
    /\ s5_ran =>
          \A r \in inventory_result(claude_foneday_inventory) :
              Unpriced(r) =>
                  /\ CallsFor(r.sku, r.foneday_sku) = {}
                  /\ AppendedFor(r.sku, r.foneday_sku) = {}

\* a run of step 5 over a snapshot with a supplier price of 0 and a snapshot
\* with positive prices, which it evaluated
C27_Witness ==
    /\ s5_ran
    /\ s5_clean
    /\ profit_args # {}
    /\ \E r \in inventory_result(claude_foneday_inventory) :
          r.price_eur = 0 /\ r.sku \in DOMAIN claude_woo_prices

\* a scan over a mapping whose storefront price is 0 and a mapping it
\* evaluated
C27_WitnessScan ==
    /\ scan_ran
    /\ profit_args # {}
    /\ \E m \in claude_sku_artcode_mapping :
          /\ m.my_sku \in DOMAIN claude_woo_stock
          /\ claude_woo_stock[m.my_sku] > 0
          /\ m.my_sku \in DOMAIN claude_woo_prices
          /\ claude_woo_prices[m.my_sku] = 0

(***************************************************************************)
(* The event log under failing inserts                                     *)
(***************************************************************************)

\* the rows of the latest run with the event type
LoggedAs(event_type) ==
    {i \in 1..Len(claude_sync_logs) : claude_sync_logs[i] = event_type}

MappingKeys(table) == {<<m.my_sku, m.foneday_artcode>> : m \in table}

\* C35: no pipeline step deletes rows: over the runs of steps 1 to 5 the key
\* sets of StockRecord, PriceRecord, NormalizedArtcode and SkuMapping only
\* grow; the artcode row of an earlier catalog and the mapping of a sku
\* that matches nothing any more stay
C35_KeysOnlyGrow ==
    [][/\ DOMAIN claude_woo_stock \subseteq DOMAIN claude_woo_stock'
       /\ DOMAIN claude_woo_prices \subseteq DOMAIN claude_woo_prices'
       /\ claude_foneday_artcodes_normalized \subseteq claude_foneday_artcodes_normalized'
       /\ MappingKeys(claude_sku_artcode_mapping)
              \subseteq MappingKeys(claude_sku_artcode_mapping')]_vars

\* after a run of step 3 that wrote mappings of the sku an earlier mapping
\* was of, the mapping of the sku that matches nothing is still there
C35_Witness ==
    /\ s3_ran
    /\ Mapping(<<"X">>, <<"X">>, "F1") \in claude_sku_artcode_mapping
    /\ \E m \in claude_sku_artcode_mapping : m.my_sku = Sku(1) /\ m.foneday_sku # "F0"

\* after a run of step 2 over a catalog that lists other artcodes for F1, the
\* artcode row of the earlier catalog is still there
C35_WitnessArtcode ==
    /\ s2_ran
    /\ [foneday_sku |-> "F1", artcode |-> <<"X">>] \in claude_foneday_artcodes_normalized
    /\ [foneday_sku |-> "F1", artcode |-> A1] \in claude_foneday_artcodes_normalized

(***************************************************************************)
(* The cart table against the cart-add calls                               *)
(***************************************************************************)
\* the k-th smallest element of a set of numbers
Nth(S, k) == CHOOSE i \in S : Cardinality({j \in S : j <= i}) = k

\* the rows are, in order, rows "added_to_cart" of as many of the calls that
\* succeeded, each with the foneday_sku and the quantity of its call
EntriesOfCalls(rows, calls) ==
    \E S \in SUBSET {k \in 1..Len(calls) : calls[k].ok} :
        /\ Cardinality(S) = Len(rows)
        /\ \A n \in 1..Len(rows) :
               /\ rows[n].status = "added_to_cart"
               /\ rows[n].foneday_sku = calls[Nth(S, n)].foneday_sku
               /\ rows[n].quantity = calls[Nth(S, n)].quantity

\* C36: the cart table never over-reports: a step leaves the rows of the
\* table in place (it may confirm one), and the rows it appends are rows
\* "added_to_cart" of calls of the run that succeeded, one row a call at
\* most; a call that failed appends nothing
C36_NoEntryWithoutCall ==
    [][/\ Len(claude_foneday_cart') >= Len(claude_foneday_cart)
       /\ \A i \in 1..Len(claude_foneday_cart) :
              /\ claude_foneday_cart'[i].foneday_sku = claude_foneday_cart[i].foneday_sku
              /\ claude_foneday_cart'[i].quantity = claude_foneday_cart[i].quantity
              /\ claude_foneday_cart'[i].status \in {claude_foneday_cart[i].status, "confirmed"}
       /\ Len(claude_foneday_cart') > Len(claude_foneday_cart) =>
              EntriesOfCalls(SubSeq(claude_foneday_cart', Len(claude_foneday_cart) + 1,
                                    Len(claude_foneday_cart')),
                             IF order_ran' /\ ~order_ran THEN order_calls' ELSE s5_calls')]_vars

\* a run of step 5 whose cart-add failed and an order whose cart-add
\* succeeded: the one row of the table is the row of the order
C36_Witness ==
    /\ s5_ran
    /\ \E k \in 1..Len(s5_calls) : ~s5_calls[k].ok
    /\ order_ran
    /\ \E k \in 1..Len(order_calls) : order_calls[k].ok
    /\ Len(claude_foneday_cart) = 1
    /\ claude_foneday_cart[1].foneday_sku \in {order_calls[k].foneday_sku : k \in 1..Len(order_calls)}

(***************************************************************************)
(* The snapshots over the runs                                             *)
(***************************************************************************)
\* every snapshot of the table is there after the step, in stock
SnapshotsKept ==
    \A r \in claude_foneday_inventory :
        \E t \in claude_foneday_inventory' :
            t.sku = r.sku /\ t.foneday_sku = r.foneday_sku /\ t.instock

\* the latest run of step 5, which got through its rows, evaluated the
\* snapshot: it passed its prices to is_profitable
Evaluated(r) == <<r.price_eur, claude_woo_prices[r.sku]>> \in profit_args

WrittenArtcodes == claude_foneday_artcodes_normalized \ s2_before

HasProduct(foneday_sku) ==
    \E p \in claude_foneday_products : p.foneday_sku = foneday_sku

\* C38: after a run of step 2, failed batch upserts included, every
\* NormalizedArtcode row written in the run has a SupplierProduct row of the
\* same foneday_sku in the store
C38_ArtcodeHasProduct ==
    s2_ran => \A r \in WrittenArtcodes : HasProduct(r.foneday_sku)

====
